---- MODULE Spec2Model ----
(***************************************************************************)
(* A model of the "zero" configuration manager: the execution engine       *)
(* (dependency graph, validation, topological ordering, platform gating,   *)
(* plan/apply loop), the DSL parser, the include processor and the         *)
(* providers.                                                              *)
(***************************************************************************)
EXTENDS Integers, Sequences, FiniteSets, TLC

VARIABLES
    resources,      \* engine: the []Resource handed to Engine.Plan / Engine.Apply
    goos,           \* runtime.GOOS of the host
    mode,           \* which handler runs: "plan" (Engine.Plan) or "apply" (Engine.Apply)
    pc,             \* position inside the handler
    graph,          \* map[string]*ResourceNode built by buildDependencyGraph
    validated,      \* provider Validate calls made so far, in call order
    orderedNodes,   \* the slice returned by topoSort
    idx,            \* loop index into orderedNodes
    calls,          \* provider Plan / Apply calls made so far, in call order
    results,        \* the map the handler returns
    err,            \* the error the handler returns
    failures,       \* number of provider Plan/Apply calls that failed in this run
    source,         \* parser: the configuration text, as its sequence of statements
    tokens,         \* the tokens the lexer produces for the text
    pos,            \* index of the lexer's current token
    Resources,      \* Parser.Resources
    errors,         \* Parser.errors
    ppc,            \* position inside Parser.Parse
    parseErr,       \* the error Parse returns: 0 for nil, else the number of errors
    cs,             \* the customScanner: its reader, buffer, position, readPos and ch
    files,          \* include handler: the config files on disk, by their tokens
    ProcessedFiles, \* IncludeHandler.ProcessedFiles
    Variables,      \* IncludeHandler.Variables
    Templates,      \* IncludeHandler.Templates
    stack,          \* the active calls of ProcessIncludes
    reads,          \* the files read so far, in order
    included,       \* the resources ProcessIncludes returned to main
    given,          \* the resources handed to ProcessTemplates
    result,         \* the resources ProcessTemplates returned
    ierr,           \* the error ProcessIncludes or ProcessTemplates returned
    ipc,            \* position inside main's use of the handler
    host,           \* providers: the live system (commands, init system, file, package, service, feature)
    desired,        \* the resource handed to the provider: its type and attributes
    valid,          \* what the provider's Validate returned: "nil" or the error, "" before the call
    applies         \* the entries Engine.Apply made for the provider's Apply calls so far

engineVars == <<resources, goos, mode, pc, graph, validated, orderedNodes, idx,
                calls, results, err, failures>>

parserVars == <<source, tokens, pos, Resources, errors, ppc, parseErr, cs>>

includeVars == <<files, ProcessedFiles, Variables, Templates, stack, reads, included, given,
                 result, ierr, ipc>>

providerVars == <<host, desired, valid, applies>>

vars == <<engineVars, parserVars, includeVars, providerVars>>

otherThanEngine == <<parserVars, includeVars, providerVars>>
otherThanParser == <<engineVars, includeVars, providerVars>>
otherThanInclude == <<engineVars, parserVars, providerVars>>
otherThanProvider == <<engineVars, parserVars, includeVars>>

(***************************************************************************)
(* Bounds of the model.                                                    *)
(***************************************************************************)
MaxRes == 3        \* longest resource list handed to the engine
MaxDeps == 1       \* longest depends_on list written on one resource
MaxFailures == 1   \* provider Plan/Apply calls that may fail in one run

(***************************************************************************)
(* Helpers on sequences and sets.                                          *)
(***************************************************************************)
Range(s) == {s[i] : i \in DOMAIN s}

SeqsUpTo(S, n) == UNION {[1..k -> S] : k \in 0..n}

Perms(S) == {s \in [1..Cardinality(S) -> S] : \A i, j \in DOMAIN s : i # j => s[i] # s[j]}

\* the post-order as the visits appended it
NotReversed(s) == s

Reverse(s) == [i \in 1..Len(s) |-> s[Len(s) + 1 - i]]

IndexOf(s, x) == IF x \in Range(s) THEN CHOOSE i \in DOMAIN s : s[i] = x /\ \A j \in 1..(i-1) : s[j] # x
                 ELSE 0

EmptyMap == [x \in {} |-> x]

(***************************************************************************)
(* Each component is exercised on its own; the others then stay in the     *)
(* state they have before they are constructed.                            *)
(***************************************************************************)
EngineIdle ==
    /\ resources = <<>>
    /\ mode = "plan"
    /\ pc = "idle"
    /\ graph = EmptyMap
    /\ validated = <<>>
    /\ orderedNodes = <<>>
    /\ idx = 0
    /\ calls = <<>>
    /\ results = EmptyMap
    /\ err = [kind |-> "none", id |-> <<>>, dep |-> <<>>]
    /\ failures = 0

IncludeIdle ==
    /\ files = EmptyMap
    /\ ProcessedFiles = {}
    /\ Variables = EmptyMap
    /\ Templates = EmptyMap
    /\ stack = <<>>
    /\ reads = <<>>
    /\ included = <<>>
    /\ given = <<>>
    /\ result = <<>>
    /\ ierr = "nil"
    /\ ipc = "idle"

ProviderIdle ==
    /\ host = EmptyMap
    /\ desired = EmptyMap
    /\ valid = ""
    /\ applies = <<>>

\* a customScanner before newCustomScanner has filled it
NoScanner ==
    [reader |-> <<>>, buffer |-> <<>>, position |-> 0, readPos |-> 0,
     ch |-> "NUL"]

ParserIdle ==
    /\ source = <<>>
    /\ tokens = <<>>
    /\ pos = 0
    /\ Resources = <<>>
    /\ errors = <<>>
    /\ ppc = "idle"
    /\ parseErr = 0
    /\ cs = NoScanner

(***************************************************************************)
(* Engine: resources, identifiers, platform gating.                        *)
(***************************************************************************)
NoErr == [kind |-> "none", id |-> <<>>, dep |-> <<>>]

\* fmt.Sprintf("%s.%s", Type, Name): the identifier is the pair of type and name
ResourceID(r) == <<r.Type, r.Name>>

RegisteredTypes == {"file", "package", "service", "windows_feature"}

\* PlatformChecker.IsSupported
RECURSIVE IsSupportedFrom(_, _, _)
IsSupportedFrom(platforms, i, currentOS) ==
    IF i > Len(platforms) THEN FALSE
    ELSE LET platform == platforms[i] IN
         IF platform \in {"linux", "darwin", "windows"} /\ currentOS = platform THEN TRUE
         ELSE IF platform = "unix" /\ currentOS \in {"linux", "darwin"} THEN TRUE
         ELSE IsSupportedFrom(platforms, i + 1, currentOS)

IsSupported(platforms, currentOS) == IsSupportedFrom(platforms, 1, currentOS)

\* Engine.isPlatformSupported
isPlatformSupported(resource, currentOS) ==
    IF "platform" \notin DOMAIN resource.Conditions THEN TRUE
    ELSE IsSupported(resource.Conditions["platform"], currentOS)

(***************************************************************************)
(* Engine.buildDependencyGraph                                             *)
(***************************************************************************)
\* first pass: graph[id] is overwritten by every resource with that id, so the
\* node holds the last one
LastIndexOf(rs, id) == CHOOSE i \in DOMAIN rs :
                          /\ ResourceID(rs[i]) = id
                          /\ \A j \in DOMAIN rs : ResourceID(rs[j]) = id => j <= i

\* second pass: every resource appends its depends_on to the node of its id
RECURSIVE LinkedDeps(_, _, _)
LinkedDeps(rs, id, i) ==
    IF i > Len(rs) THEN <<>>
    ELSE (IF ResourceID(rs[i]) = id THEN rs[i].DependsOn ELSE <<>>) \o LinkedDeps(rs, id, i + 1)

GraphIds(rs) == {ResourceID(rs[i]) : i \in DOMAIN rs}

\* the first (resource, dependency) pair, in list order, whose target is missing
MissingPairs(rs) == UNION {{<<i, j>> : j \in {k \in DOMAIN rs[i].DependsOn :
                                                 rs[i].DependsOn[k] \notin GraphIds(rs)}} :
                           i \in DOMAIN rs}

\* a second pass that links the dependencies it finds and passes over the others
buildDependencyGraphErrIgnoringMissing(rs) == NoErr

buildDependencyGraphErr(rs) ==
    IF MissingPairs(rs) = {} THEN NoErr
    ELSE LET p == CHOOSE p \in MissingPairs(rs) :
                      \A q \in MissingPairs(rs) : p[1] < q[1] \/ (p[1] = q[1] /\ p[2] <= q[2]) IN
         [kind |-> "missing_dependency", id |-> ResourceID(rs[p[1]]), dep |-> rs[p[1]].DependsOn[p[2]]]

buildDependencyGraph(rs) ==
    [id \in GraphIds(rs) |->
        [Resource |-> rs[LastIndexOf(rs, id)], DependsOn |-> LinkedDeps(rs, id, 1)]]

(***************************************************************************)
(* Engine.topoSort                                                         *)
(***************************************************************************)
\* st.Visited: the nodes whose Visited flag is set (on the DFS stack)
\* st.visited: the local visited map; st.result: the post-order so far
RECURSIVE visit(_, _, _), visitDeps(_, _, _, _)
visit(g, id, st) ==
    IF st.err # NoErr THEN st
    ELSE IF id \in st.Visited
         THEN [st EXCEPT !.err = [kind |-> "cycle", id |-> id, dep |-> <<>>]]
    ELSE IF id \in st.visited THEN st
    ELSE LET entered == [st EXCEPT !.Visited = @ \cup {id}]
             after == visitDeps(g, g[id].DependsOn, 1, entered)
         IN IF after.err # NoErr THEN after
            ELSE [after EXCEPT !.Visited = @ \ {id},
                               !.visited = @ \cup {id},
                               !.result = Append(@, id)]

visitDeps(g, deps, i, st) ==
    IF i > Len(deps) \/ st.err # NoErr THEN st
    ELSE visitDeps(g, deps, i + 1, visit(g, deps[i], st))

\* the loop over the map, in the iteration order `order`
RECURSIVE visitAll(_, _, _, _)
visitAll(g, order, i, st) ==
    IF i > Len(order) \/ st.err # NoErr THEN st
    ELSE visitAll(g, order, i + 1,
                  IF order[i] \in st.visited THEN st ELSE visit(g, order[i], st))

\* a topoSort that returns the order without reporting a cycle
topoSortNoCycleError(g, order) ==
    LET st == visitAll(g, order, 1,
                       [Visited |-> {}, visited |-> {}, result |-> <<>>, err |-> NoErr])
    IN [result |-> Reverse(st.result), err |-> NoErr]

topoSort(g, order) ==
    LET st == visitAll(g, order, 1,
                       [Visited |-> {}, visited |-> {}, result |-> <<>>, err |-> NoErr])
    IN [result |-> IF st.err = NoErr THEN Reverse(st.result) ELSE <<>>, err |-> st.err]

(***************************************************************************)
(* Engine.validateResources: one pass over the map in the iteration order  *)
(* `order`; `bad` is the node whose attributes the provider rejects (or    *)
(* NoNode when every provider accepts).                                    *)
(***************************************************************************)
NoNode == <<>>

RECURSIVE validateResources(_, _, _, _, _, _)
validateResources(g, order, i, bad, os, acc) ==
    IF i > Len(order) THEN [validated |-> acc, err |-> NoErr]
    ELSE LET id == order[i]
             node == g[id]
         IN IF ~isPlatformSupported(node.Resource, os)
            THEN validateResources(g, order, i + 1, bad, os, acc)
            ELSE IF node.Resource.Type \notin RegisteredTypes
            THEN [validated |-> acc, err |-> [kind |-> "no_provider", id |-> id, dep |-> <<>>]]
            ELSE IF id = bad
            THEN [validated |-> Append(acc, id),
                  err |-> [kind |-> "validation_failed", id |-> id, dep |-> <<>>]]
            ELSE validateResources(g, order, i + 1, bad, os, Append(acc, id))

(***************************************************************************)
(* The inputs of a run.                                                    *)
(***************************************************************************)
Pool == <<(<<"file", "d">>), (<<"file", "f">>), (<<"service", "s">>), (<<"package", "p">>)>>

PoolIds(n) == {Pool[k] : k \in 1..n}

\* identifiers a depends_on entry may name; one that no resource of the list has
\* is a missing dependency target
DepTargets == PoolIds(MaxRes)

DepLists == SeqsUpTo(DepTargets, MaxDeps)

CondChoices == {EmptyMap, [platform |-> <<"unix">>]}

HostOSes == {"linux", "windows"}

\* resource lists up to renaming: a resource has an identifier used earlier in
\* the list or the first unused one of the pool
ResourceLists ==
    UNION {{rs \in [1..n -> [Type : {"file", "service", "package"}, Name : {"d", "f", "s", "p"},
                              DependsOn : DepLists, Conditions : CondChoices]] :
               \A i \in 1..n :
                  ResourceID(rs[i]) \in
                     PoolIds(Cardinality({ResourceID(rs[j]) : j \in 1..(i-1)}) + 1)} :
           n \in 0..MaxRes}

ApplyStatuses == {"created", "unchanged"}

(***************************************************************************)
(* Engine.Plan and Engine.Apply as a state machine.                        *)
(***************************************************************************)
EngineInit ==
    /\ resources \in ResourceLists
    /\ goos \in HostOSes
    /\ mode \in {"plan", "apply"}
    /\ pc = "build"
    /\ graph = EmptyMap
    /\ validated = <<>>
    /\ orderedNodes = <<>>
    /\ idx = 0
    /\ calls = <<>>
    /\ results = EmptyMap
    /\ err = NoErr
    /\ failures = 0
    /\ ProviderIdle
    /\ ParserIdle
    /\ IncludeIdle

\* Plan/Apply: graph, err := e.buildDependencyGraph(resources)
BuildDependencyGraph ==
    /\ pc = "build"
    /\ LET e == buildDependencyGraphErr(resources) IN
       IF e # NoErr
       THEN /\ err' = e
            /\ pc' = "done"
            /\ graph' = graph
       ELSE /\ graph' = buildDependencyGraph(resources)
            /\ pc' = "validate"
            /\ err' = err
    /\ UNCHANGED <<resources, goos, mode, validated, orderedNodes, idx, calls, results, failures>>
    /\ UNCHANGED otherThanEngine

\* Plan/Apply: e.validateResources(ctx, graph)
ValidateResources ==
    /\ pc = "validate"
    /\ \E order \in Perms(DOMAIN graph), bad \in (DOMAIN graph) \cup {NoNode} :
          LET r == validateResources(graph, order, 1, bad, goos, <<>>) IN
          /\ validated' = r.validated
          /\ err' = r.err
          /\ pc' = IF r.err = NoErr THEN "sort" ELSE "done"
    /\ UNCHANGED <<resources, goos, mode, graph, orderedNodes, idx, calls, results, failures>>
    /\ UNCHANGED otherThanEngine

\* Plan/Apply: orderedNodes, err := e.topoSort(graph)
TopoSort ==
    /\ pc = "sort"
    /\ \E order \in Perms(DOMAIN graph) :
          LET r == topoSort(graph, order) IN
          /\ orderedNodes' = r.result
          /\ err' = r.err
          /\ pc' = IF r.err = NoErr THEN "loop" ELSE "done"
          /\ idx' = IF r.err = NoErr THEN 1 ELSE idx
    /\ UNCHANGED <<resources, goos, mode, graph, validated, calls, results, failures>>
    /\ UNCHANGED otherThanEngine

Put(m, k, v) == [x \in (DOMAIN m) \cup {k} |-> IF x = k THEN v ELSE m[x]]

\* a Plan loop that classifies against a stored state in which the resource exists
PlanActionFromStoredState(status, current) ==
    IF status = "planned"
    THEN [Action |-> "update", Details |-> "Resource will be updated"]
    ELSE IF status = "unchanged"
    THEN [Action |-> "no-op", Details |-> "Resource already in desired state"]
    ELSE [Action |-> "no-op", Details |-> "No changes required"]

\* the action Engine.Plan derives from the status the provider's Plan returned
PlanActionFor(status, current) ==
    IF status = "planned"
    THEN IF "path" \in DOMAIN current
         THEN [Action |-> "update", Details |-> "Resource will be updated"]
         ELSE [Action |-> "create", Details |-> "Resource will be created"]
    ELSE IF status = "unchanged"
    THEN [Action |-> "no-op", Details |-> "Resource already in desired state"]
    ELSE [Action |-> "no-op", Details |-> "No changes required"]

\* one iteration of the loop of Engine.Plan; a plan call is recorded with what the
\* provider returned: the status of its result, or error.  The four providers' Plan
\* return a result with status planned or unchanged, or an error.
PlanNode ==
    /\ pc = "loop"
    /\ mode = "plan"
    /\ idx <= Len(orderedNodes)
    /\ LET id == orderedNodes[idx]
           node == graph[id]
       IN IF ~isPlatformSupported(node.Resource, goos)
          THEN UNCHANGED <<calls, results, failures>>
          ELSE IF node.Resource.Type \notin RegisteredTypes
          THEN /\ results' = Put(results, id, [Action |-> "error",
                                                Details |-> "Error getting provider"])
               /\ UNCHANGED <<calls, failures>>
          ELSE \/ /\ failures < MaxFailures
                  /\ failures' = failures + 1
                  /\ calls' = Append(calls, <<"plan", id, "error">>)
                  /\ results' = Put(results, id, [Action |-> "error",
                                                   Details |-> "Error planning"])
               \/ /\ \E status \in {"planned", "unchanged"} :
                        /\ calls' = Append(calls, <<"plan", id, status>>)
                        /\ results' = Put(results, id, PlanActionFor(status, EmptyMap))
                  /\ failures' = failures
    /\ idx' = idx + 1
    /\ UNCHANGED <<resources, goos, mode, pc, graph, validated, orderedNodes, err>>
    /\ UNCHANGED otherThanEngine

\* an Apply loop that returns the error of the first failing provider call
ApplyNodeAbortsOnFailure ==
    /\ pc = "loop"
    /\ mode = "apply"
    /\ idx <= Len(orderedNodes)
    /\ LET id == orderedNodes[idx]
           node == graph[id]
       IN IF ~isPlatformSupported(node.Resource, goos)
          THEN UNCHANGED <<calls, results, failures, err, pc>>
          ELSE \/ /\ failures < MaxFailures
                  /\ failures' = failures + 1
                  /\ calls' = Append(calls, <<"plan", id>>)
                  /\ err' = [kind |-> "provider", id |-> id, dep |-> <<>>]
                  /\ pc' = "done"
                  /\ results' = results
               \/ /\ failures' = failures
                  /\ calls' = calls \o <<(<<"plan", id>>), (<<"apply", id>>)>>
                  /\ \E status \in ApplyStatuses :
                        results' = Put(results, id, [Status |-> status, Error |-> FALSE,
                                                     Attributes |-> TRUE])
                  /\ UNCHANGED <<err, pc>>
    /\ idx' = idx + 1
    /\ UNCHANGED <<resources, goos, mode, graph, validated, orderedNodes>>
    /\ UNCHANGED otherThanEngine

\* one iteration of the loop of Engine.Apply
ApplyNode ==
    /\ pc = "loop"
    /\ mode = "apply"
    /\ idx <= Len(orderedNodes)
    /\ LET id == orderedNodes[idx]
           node == graph[id]
       IN IF ~isPlatformSupported(node.Resource, goos)
          THEN UNCHANGED <<calls, results, failures>>
          ELSE IF node.Resource.Type \notin RegisteredTypes
          THEN /\ results' = Put(results, id, [Status |-> "failed", Error |-> TRUE,
                                                Attributes |-> FALSE])
               /\ UNCHANGED <<calls, failures>>
          ELSE \/ \* provider.Plan returns an error
                  /\ failures < MaxFailures
                  /\ failures' = failures + 1
                  /\ calls' = Append(calls, <<"plan", id>>)
                  /\ results' = Put(results, id, [Status |-> "failed", Error |-> TRUE,
                                                   Attributes |-> FALSE])
               \/ \* provider.Plan succeeds, provider.Apply returns an error
                  /\ failures < MaxFailures
                  /\ failures' = failures + 1
                  /\ calls' = calls \o <<(<<"plan", id>>), (<<"apply", id>>)>>
                  /\ results' = Put(results, id, [Status |-> "failed", Error |-> TRUE,
                                                   Attributes |-> TRUE])
               \/ \* both succeed
                  /\ failures' = failures
                  /\ calls' = calls \o <<(<<"plan", id>>), (<<"apply", id>>)>>
                  /\ \E status \in ApplyStatuses :
                        results' = Put(results, id, [Status |-> status, Error |-> FALSE,
                                                     Attributes |-> TRUE])
    /\ idx' = idx + 1
    /\ UNCHANGED <<resources, goos, mode, pc, graph, validated, orderedNodes, err>>
    /\ UNCHANGED otherThanEngine

\* return results, nil
Return ==
    /\ pc = "loop"
    /\ idx > Len(orderedNodes)
    /\ pc' = "done"
    /\ UNCHANGED <<resources, goos, mode, graph, validated, orderedNodes, idx, calls,
                   results, err, failures>>
    /\ UNCHANGED otherThanEngine

EngineNext ==
    \/ BuildDependencyGraph
    \/ ValidateResources
    \/ TopoSort
    \/ PlanNode
    \/ ApplyNode
    \/ Return

SpecEngine == EngineInit /\ [][EngineNext]_vars

(***************************************************************************)
(* Properties of the engine.                                               *)
(***************************************************************************)
\* the identifiers the resources of identifier id name in depends_on and that
\* some resource of the list has
DepsOf(rs, id) == Range(LinkedDeps(rs, id, 1)) \cap GraphIds(rs)

RECURSIVE ReachFrom(_, _, _)
ReachFrom(rs, S, n) ==
    IF n = 0 THEN S
    ELSE ReachFrom(rs, S \cup UNION {DepsOf(rs, x) : x \in S}, n - 1)

\* everything id depends on, directly or transitively
DependsOnTrans(rs, id) == ReachFrom(rs, DepsOf(rs, id), Len(rs))

OnCycle(rs, id) == id \in GraphIds(rs) /\ id \in DependsOnTrans(rs, id)

HasCycle(rs) == \E id \in GraphIds(rs) : OnCycle(rs, id)

SupportedIds == {id \in DOMAIN graph : isPlatformSupported(graph[id].Resource, goos)}

CallCount(op, id) == Cardinality({i \in DOMAIN calls : calls[i][1] = op /\ calls[i][2] = id})

\* C1: in a run of Engine.Apply (the list is then acyclic), for every pair of
\* resources (u, v) where v directly or transitively depends on u, the provider's
\* Apply for u is invoked before the provider's Apply for v.
C1_DependenciesAppliedFirst ==
    mode = "apply" =>
        \A i, j \in DOMAIN calls :
            (/\ calls[i][1] = "apply"
             /\ calls[j][1] = "apply"
             /\ calls[i][2] \in DependsOnTrans(resources, calls[j][2])) => i < j

\* C2 as stated: a run on a list whose depends_on edges contain a cycle ends
\* with an error that names a resource lying on a cycle, and makes no provider
\* Apply call.
C2_CycleErrorNamesCycleNode ==
    (pc = "done" /\ HasCycle(resources)) =>
        /\ err # NoErr
        /\ OnCycle(resources, err.id)
        /\ \A i \in DOMAIN calls : calls[i][1] # "apply"

\* C2 amended: a run on a list whose depends_on edges contain a cycle makes no
\* provider Plan or Apply call and returns no result map; it ends with an error,
\* which is the missing-dependency error only if a dependency target is missing,
\* else the error of a failed validation, else the cycle error; the cycle error
\* names a resource that lies on a cycle.
C2_CyclicRunFailsBeforeApply ==
    HasCycle(resources) =>
        /\ calls = <<>>
        /\ results = EmptyMap
        /\ pc = "done" =>
              /\ err.kind \in {"missing_dependency", "validation_failed", "no_provider", "cycle"}
              /\ err.kind = "missing_dependency" => MissingPairs(resources) # {}
              /\ err.kind = "validation_failed" => err.id = validated[Len(validated)]
              /\ err.kind = "cycle" => OnCycle(resources, err.id)

\* a run over three nodes, two of them on a cycle and one not, ended with the
\* cycle error
C2_Witness ==
    /\ pc = "done"
    /\ err.kind = "cycle"
    /\ Cardinality(DOMAIN graph) = 3
    /\ \E id \in DOMAIN graph : ~OnCycle(resources, id)
    /\ validated # <<>>

\* the claim's test of a resource against the host OS
PlatformTest(r, os) ==
    \/ "platform" \notin DOMAIN r.Conditions
    \/ os \in Range(r.Conditions["platform"])
    \/ "unix" \in Range(r.Conditions["platform"]) /\ os \in {"linux", "darwin"}

\* C3: in a run that returns its map, a resource is processed (the provider's
\* Validate and Plan are called for its identifier and the map has an entry for
\* it) if and only if it has no platform condition, or its platform list
\* contains the host OS, or contains "unix" and the host is linux or darwin.
C3_ProcessedIffPlatformMatches ==
    (pc = "done" /\ err = NoErr) =>
        \A i \in DOMAIN resources :
            LET id == ResourceID(resources[i]) IN
            (/\ id \in Range(validated)
             /\ CallCount("plan", id) > 0
             /\ id \in DOMAIN results) <=> PlatformTest(resources[i], goos)

\* C5: once Engine.Apply has entered its loop (idx is set) it never returns an error; when
\* it returns, the map holds exactly one entry for each platform-supported node,
\* the provider's Plan was called once for each of them and its Apply once for
\* each whose Plan succeeded, and every failed call is recorded as an entry
\* with status failed and its error.
C5_FailuresDoNotAbortApply ==
    (mode = "apply" /\ idx >= 1) =>
        /\ err = NoErr
        /\ \A id \in DOMAIN results : results[id].Status = "failed" <=> results[id].Error
        /\ Cardinality({id \in DOMAIN results : results[id].Status = "failed"}) = failures
        /\ pc = "done" =>
              /\ DOMAIN results = SupportedIds
              /\ \A id \in SupportedIds :
                    /\ CallCount("plan", id) = 1
                    /\ CallCount("apply", id) =
                          (IF results[id].Status = "failed" /\ ~results[id].Attributes
                           THEN 0 ELSE 1)
              /\ Len(calls) <= 2 * Cardinality(SupportedIds)

\* a finished Apply run in which a provider call failed for a resource and a
\* later resource of the order, related to it by depends_on, was still applied
C5_Witness ==
    /\ mode = "apply"
    /\ pc = "done"
    /\ err = NoErr
    /\ \E i, j \in DOMAIN orderedNodes :
          /\ i < j
          /\ orderedNodes[i] \in DOMAIN results
          /\ results[orderedNodes[i]].Status = "failed"
          /\ orderedNodes[j] \in DependsOnTrans(resources, orderedNodes[i])
          /\ CallCount("apply", orderedNodes[j]) = 1
          /\ results[orderedNodes[j]].Status = "created"

(***************************************************************************)
(* Parser: tokens and the lexer's cursor.  A token is its type and its     *)
(* literal; the position of the current token in the token stream stands   *)
(* for the lexer's (curr, next) pair.                                      *)
(***************************************************************************)
Tok(type, literal) == [Type |-> type, Literal |-> literal]

\* Lexer.Current: past the last token the scanner keeps returning EOF
Current(toks, p) == IF p <= Len(toks) THEN toks[p] ELSE Tok("EOF", "")

\* Lexer.advance; k calls of it move the lexer from token p to token p + k
advance(p) == p + 1

\* an attribute value is a Go string, []string or map[string]string
StringValue(s) == [T |-> "string", L |-> <<s>>, M |-> EmptyMap]
ArrayValue(l) == [T |-> "[]string", L |-> l, M |-> EmptyMap]
MapValue(m) == [T |-> "map[string]string", L |-> <<>>, M |-> m]

NoError == ""

\* what a parse function returns: the position it leaves the lexer at, its
\* error and its value
Returns(p, e, v) == [pos |-> p, err |-> e, val |-> v]

\* the check for the closing token that ends each parse function
expectClosing(toks, r, type, msg) ==
    IF r.err # NoError THEN r
    ELSE IF Current(toks, r.pos).Type # type THEN [r EXCEPT !.err = msg]
    ELSE [r EXCEPT !.pos = advance(r.pos)]

(***************************************************************************)
(* Parser.parseStringArray                                                 *)
(***************************************************************************)
RECURSIVE parseStringArrayLoop(_, _, _), parseStringArraySeparator(_, _, _)
parseStringArrayLoop(toks, p, acc) ==
    IF Current(toks, p).Type \in {"RBRACKET", "EOF"} THEN Returns(p, NoError, acc)
    ELSE IF Current(toks, p).Type # "STRING" THEN Returns(p, "expected string in array", acc)
    ELSE parseStringArraySeparator(toks, advance(p), Append(acc, Current(toks, p).Literal))

parseStringArraySeparator(toks, p, acc) ==
    IF Current(toks, p).Type = "COMMA" THEN parseStringArrayLoop(toks, advance(p), acc)
    ELSE IF Current(toks, p).Type # "RBRACKET" THEN Returns(p, "expected ',' or ']'", acc)
    ELSE parseStringArrayLoop(toks, p, acc)

parseStringArray(toks, p) ==
    IF Current(toks, p).Type # "LBRACKET" THEN Returns(p, "expected '['", <<>>)
    ELSE expectClosing(toks, parseStringArrayLoop(toks, advance(p), <<>>),
                       "RBRACKET", "expected ']'")

(***************************************************************************)
(* Parser.parseBlockMap                                                    *)
(***************************************************************************)
RECURSIVE parseBlockMapLoop(_, _, _), parseBlockMapSeparator(_, _, _)
parseBlockMapLoop(toks, p, acc) ==
    IF Current(toks, p).Type \in {"RBRACE", "EOF"} THEN Returns(p, NoError, acc)
    ELSE IF Current(toks, p).Type # "IDENT"
    THEN Returns(p, "expected identifier in block map", acc)
    ELSE IF Current(toks, p + 1).Type # "ASSIGN"
    THEN Returns(p + 1, "expected '=' after key in block map", acc)
    ELSE IF Current(toks, p + 2).Type # "STRING"
    THEN Returns(p + 2, "expected string value in block map", acc)
    ELSE parseBlockMapSeparator(toks, p + 3,
            Put(acc, Current(toks, p).Literal, Current(toks, p + 2).Literal))

parseBlockMapSeparator(toks, p, acc) ==
    IF Current(toks, p).Type = "COMMA" THEN parseBlockMapLoop(toks, advance(p), acc)
    ELSE IF Current(toks, p).Type # "RBRACE" THEN Returns(p, "expected ',' or '}'", acc)
    ELSE parseBlockMapLoop(toks, p, acc)

parseBlockMap(toks, p) ==
    IF Current(toks, p).Type # "LBRACE" THEN Returns(p, "expected '{'", EmptyMap)
    ELSE expectClosing(toks, parseBlockMapLoop(toks, advance(p), EmptyMap),
                       "RBRACE", "expected '}'")

(***************************************************************************)
(* Parser.parseConditionBlock                                              *)
(***************************************************************************)
RECURSIVE parseConditionBlockLoop(_, _, _), parseConditionValues(_, _, _, _)
parseConditionBlockLoop(toks, p, acc) ==
    IF Current(toks, p).Type \in {"RBRACE", "EOF"} THEN Returns(p, NoError, acc)
    ELSE IF Current(toks, p).Type # "IDENT" THEN Returns(p, "expected condition name", acc)
    ELSE IF Current(toks, p + 1).Type # "ASSIGN"
    THEN Returns(p + 1, "expected '=' after condition name", acc)
    ELSE parseConditionValues(toks, Current(toks, p).Literal, acc,
                              parseStringArray(toks, p + 2))

\* conditions[condName] = values, unless parseStringArray failed
parseConditionValues(toks, condName, acc, values) ==
    IF values.err # NoError THEN Returns(values.pos, values.err, acc)
    ELSE parseConditionBlockLoop(toks, values.pos, Put(acc, condName, values.val))

parseConditionBlock(toks, p) ==
    IF Current(toks, p).Type # "LBRACE" THEN Returns(p, "expected '{'", EmptyMap)
    ELSE expectClosing(toks, parseConditionBlockLoop(toks, advance(p), EmptyMap),
                       "RBRACE", "expected '}'")

(***************************************************************************)
(* Parser.parseDependsOn: a dependency is fmt.Sprintf("%s.%s", type, name), *)
(* the pair of the type identifier and the name                            *)
(***************************************************************************)
RECURSIVE parseDependsOnLoop(_, _, _), parseDependsOnSeparator(_, _, _)
parseDependsOnLoop(toks, p, acc) ==
    IF Current(toks, p).Type \in {"RBRACKET", "EOF"} THEN Returns(p, NoError, acc)
    ELSE IF Current(toks, p).Type # "IDENT" THEN Returns(p, "expected resource type", acc)
    ELSE IF Current(toks, p + 1).Type # "LBRACE"
    THEN Returns(p + 1, "expected '{' after resource type", acc)
    ELSE IF Current(toks, p + 2).Type # "STRING"
    THEN Returns(p + 2, "expected resource name string", acc)
    ELSE IF Current(toks, p + 3).Type # "RBRACE"
    THEN Returns(p + 3, "expected '}' after resource name", acc)
    ELSE parseDependsOnSeparator(toks, p + 4,
            Append(acc, <<Current(toks, p).Literal, Current(toks, p + 2).Literal>>))

parseDependsOnSeparator(toks, p, acc) ==
    IF Current(toks, p).Type = "COMMA" THEN parseDependsOnLoop(toks, advance(p), acc)
    ELSE IF Current(toks, p).Type # "RBRACKET" THEN Returns(p, "expected ',' or ']'", acc)
    ELSE parseDependsOnLoop(toks, p, acc)

parseDependsOn(toks, p) ==
    IF Current(toks, p).Type # "LBRACKET" THEN Returns(p, "expected '[' after depends_on", <<>>)
    ELSE expectClosing(toks, parseDependsOnLoop(toks, advance(p), <<>>),
                       "RBRACKET", "expected ']'")

(***************************************************************************)
(* Parser.parseResourceBlock                                               *)
(***************************************************************************)
NewResource(type, name, attrs) ==
    [Type |-> type, Name |-> name, Attributes |-> attrs, DependsOn |-> <<>>,
     Conditions |-> EmptyMap]

\* the attribute the block's name is copied to (parser.go:547-566)
NameAttributes(resourceType, name) ==
    IF resourceType \in {"file", "include"} THEN [path |-> StringValue(name)]
    ELSE IF resourceType \in {"variable", "template"} THEN [name |-> StringValue(name)]
    ELSE EmptyMap

\* a parse result with its value wrapped as an attribute value
asArray(r) == Returns(r.pos, r.err, ArrayValue(r.val))
asMap(r) == Returns(r.pos, r.err, MapValue(r.val))

\* the attribute value that starts at the current token (parser.go:612-637)
parseAttributeValue(toks, p) ==
    IF Current(toks, p).Type \in {"STRING", "NUMBER"}
    THEN Returns(advance(p), NoError, StringValue(Current(toks, p).Literal))
    ELSE IF Current(toks, p).Type = "LBRACKET" THEN asArray(parseStringArray(toks, p))
    ELSE IF Current(toks, p).Type = "LBRACE" THEN asMap(parseBlockMap(toks, p))
    ELSE Returns(p, "unexpected value type for attribute", StringValue(Current(toks, p).Literal))

\* the loop over the attributes of a block (parser.go:577-643); field is the
\* part of the resource the parsed value r is stored in
RECURSIVE parseResourceBlockLoop(_, _, _), parseResourceBlockStore(_, _, _, _, _)
parseResourceBlockLoop(toks, p, resource) ==
    IF Current(toks, p).Type \in {"RBRACE", "EOF"} THEN Returns(p, NoError, resource)
    ELSE IF Current(toks, p).Type = "DEPENDS_ON"
    THEN parseResourceBlockStore(toks, resource, "DependsOn", "", parseDependsOn(toks, p + 1))
    ELSE IF Current(toks, p).Type = "WHEN"
    THEN IF Current(toks, p + 1).Type # "ASSIGN"
         THEN Returns(p + 1, "expected '=' after when", resource)
         ELSE parseResourceBlockStore(toks, resource, "Conditions", "",
                                      parseConditionBlock(toks, p + 2))
    ELSE IF Current(toks, p).Type = "IDENT"
    THEN IF Current(toks, p + 1).Type # "ASSIGN"
         THEN Returns(p + 1, "expected '=' after attribute name", resource)
         ELSE parseResourceBlockStore(toks, resource, "Attributes", Current(toks, p).Literal,
                                      parseAttributeValue(toks, p + 2))
    ELSE Returns(p, "unexpected token in resource block", resource)

parseResourceBlockStore(toks, resource, field, attrName, r) ==
    IF r.err # NoError THEN Returns(r.pos, r.err, resource)
    ELSE parseResourceBlockLoop(toks, r.pos,
            IF field = "DependsOn" THEN [resource EXCEPT !.DependsOn = r.val]
            ELSE IF field = "Conditions" THEN [resource EXCEPT !.Conditions = r.val]
            ELSE [resource EXCEPT !.Attributes = Put(@, attrName, r.val)])

parseResourceBlock(toks, p, resourceType) ==
    IF Current(toks, p).Type # "STRING"
    THEN Returns(p, "expected resource name string", NewResource(resourceType, "", EmptyMap))
    ELSE IF Current(toks, p + 1).Type # "LBRACE"
    THEN Returns(p + 1, "expected '{'", NewResource(resourceType, "", EmptyMap))
    ELSE expectClosing(toks,
            parseResourceBlockLoop(toks, p + 2,
                NewResource(resourceType, Current(toks, p).Literal,
                            NameAttributes(resourceType, Current(toks, p).Literal))),
            "RBRACE", "expected '}'")

(***************************************************************************)
(* Parser.parseIncludePlatformBlock; p is at the include_platform keyword  *)
(***************************************************************************)
RECURSIVE parseIncludePlatformLoop(_, _, _)
parseIncludePlatformLoop(toks, p, resource) ==
    IF Current(toks, p).Type \in {"RBRACE", "EOF"} THEN Returns(p, NoError, resource)
    ELSE IF Current(toks, p).Type # "IDENT"
    THEN Returns(p, "expected platform identifier (linux, darwin, windows)", resource)
    ELSE IF Current(toks, p + 1).Type # "ASSIGN"
    THEN Returns(p + 1, "expected '=' after platform name", resource)
    ELSE IF Current(toks, p + 2).Type # "STRING"
    THEN Returns(p + 2, "expected string path for platform", resource)
    ELSE parseIncludePlatformLoop(toks, p + 3,
            [resource EXCEPT !.Attributes = Put(@, Current(toks, p).Literal,
                                                StringValue(Current(toks, p + 2).Literal))])

parseIncludePlatformBlock(toks, p) ==
    IF Current(toks, p + 1).Type # "LBRACE"
    THEN Returns(p + 1, "expected '{' after include_platform",
                 NewResource("include_platform", "platform", EmptyMap))
    ELSE expectClosing(toks,
            parseIncludePlatformLoop(toks, p + 2,
                                     NewResource("include_platform", "platform", EmptyMap)),
            "RBRACE", "expected '}' to close include_platform block")

(***************************************************************************)
(* Parser.skipToNextResource                                               *)
(***************************************************************************)
RECURSIVE skipFrom(_, _, _)
skipFrom(toks, p, braceDepth) ==
    IF Current(toks, p).Type = "EOF" THEN p
    ELSE IF Current(toks, p).Type = "LBRACE" THEN skipFrom(toks, advance(p), braceDepth + 1)
    ELSE IF Current(toks, p).Type = "RBRACE"
    THEN IF braceDepth - 1 <= 0 THEN advance(p)
         ELSE skipFrom(toks, advance(p), braceDepth - 1)
    ELSE skipFrom(toks, advance(p), braceDepth)

skipToNextResource(toks, p) == skipFrom(toks, p, 0)

(***************************************************************************)
(* Parser.Parse: one iteration of its loop.  The parser state st is the    *)
(* lexer position, p.Resources and p.errors.                               *)
(***************************************************************************)
\* Parser.ParseError: the message with the position of the current token
ParseError(st, p, msg, cause) ==
    [st EXCEPT !.errors = Append(@, [at |-> p, msg |-> msg, cause |-> cause])]

\* ParseError at token p, then skipToNextResource
errorAndSkip(toks, st, p, msg, cause) ==
    [ParseError(st, p, msg, cause) EXCEPT !.pos = skipToNextResource(toks, p)]

\* `include {`: the inline include_platform structure (parser.go:387-438);
\* st.pos runs over the tokens of the block, attrs is resource.Attributes
RECURSIVE parseInlineIncludeLoop(_, _, _)
parseInlineIncludeLoop(toks, st, attrs) ==
    IF Current(toks, st.pos).Type \in {"RBRACE", "EOF"} THEN [st |-> st, val |-> attrs]
    ELSE IF Current(toks, st.pos).Type # "IDENT"
    THEN parseInlineIncludeLoop(toks,
            errorAndSkip(toks, st, st.pos,
                         "Expected platform identifier in include_platform block", NoError),
            attrs)
    ELSE IF Current(toks, st.pos + 1).Type # "ASSIGN"
    THEN parseInlineIncludeLoop(toks,
            errorAndSkip(toks, st, st.pos + 1, "Expected '=' after platform name", NoError),
            attrs)
    ELSE IF Current(toks, st.pos + 2).Type # "STRING"
    THEN parseInlineIncludeLoop(toks,
            errorAndSkip(toks, st, st.pos + 2, "Expected string path for platform", NoError),
            attrs)
    ELSE parseInlineIncludeLoop(toks, [st EXCEPT !.pos = @ + 3],
            Put(attrs, Current(toks, st.pos).Literal,
                StringValue(Current(toks, st.pos + 2).Literal)))

\* the end of the inline structure: skip the closing brace, append the resource
parseInlineIncludeEnd(toks, r) ==
    [r.st EXCEPT !.pos = IF Current(toks, @).Type = "RBRACE" THEN advance(@) ELSE @,
                 !.Resources = Append(@, NewResource("include_platform", "platform", r.val))]

\* p is at the brace that follows the include keyword
parseInlineInclude(toks, p, st) ==
    parseInlineIncludeEnd(toks,
        parseInlineIncludeLoop(toks, [st EXCEPT !.pos = advance(p)], EmptyMap))

\* what Parse does with the result r of parseIncludePlatformBlock or
\* parseResourceBlock (parser.go:449-455 and 461-466)
parsedStatement(toks, st, r, msg) ==
    IF r.err # NoError THEN errorAndSkip(toks, st, r.pos, msg, r.err)
    ELSE [st EXCEPT !.pos = r.pos, !.Resources = Append(@, r.val)]

\* the include_platform keyword (parser.go:446-456); p is at the keyword
parseIncludePlatformStatement(toks, p, st) ==
    parsedStatement(toks, st, parseIncludePlatformBlock(toks, p),
                    "Error parsing include_platform")

\* a resource block (parser.go:458-466); p is at the token the loop body
\* advances over before it parses the block
parseResourceStatement(toks, p, resourceType, st) ==
    parsedStatement(toks, st, parseResourceBlock(toks, advance(p), resourceType),
                    "Error parsing resource")

\* the type of the block a token starts (parser.go:363-375)
resourceTypeOf(tok) ==
    IF tok.Type = "INCLUDE" THEN "include"
    ELSE IF tok.Type = "INCLUDE_PLATFORM" THEN "include_platform"
    ELSE IF tok.Type = "VARIABLE" THEN "variable"
    ELSE IF tok.Type = "TEMPLATE" THEN "template"
    ELSE tok.Literal

\* the body of the loop of Parse (parser.go:352-471)
ParseIteration(toks, st) ==
    IF Current(toks, st.pos).Type \notin {"IDENT", "INCLUDE", "INCLUDE_PLATFORM", "VARIABLE", "TEMPLATE"}
    THEN [ParseError(st, st.pos,
                     "Expected resource type identifier, include, or variable statement",
                     NoError)
            EXCEPT !.pos = advance(st.pos)]
    ELSE IF Current(toks, st.pos).Type = "INCLUDE"
    THEN IF Current(toks, st.pos + 1).Type = "LBRACE"
         THEN parseInlineInclude(toks, st.pos + 1, st)
         ELSE IF Current(toks, st.pos + 2).Type = "INCLUDE_PLATFORM"
         THEN parseIncludePlatformStatement(toks, st.pos + 2, st)
         ELSE parseResourceStatement(toks, st.pos + 2, "include", st)
    ELSE IF Current(toks, st.pos).Type = "INCLUDE_PLATFORM"
    THEN parseIncludePlatformStatement(toks, st.pos, st)
    ELSE parseResourceStatement(toks, st.pos, resourceTypeOf(Current(toks, st.pos)), st)

\* Parse up to the end of the input
RECURSIVE ParseLoop(_, _)
ParseLoop(toks, st) ==
    IF Current(toks, st.pos).Type = "EOF" THEN st
    ELSE ParseLoop(toks, ParseIteration(toks, st))

\* NewParser, then Parse
Parse(toks) == ParseLoop(toks, [pos |-> 1, Resources |-> <<>>, errors |-> <<>>])

(***************************************************************************)
(* The configuration texts the parser is run on: a text is a sequence of   *)
(* top-level statements, each given by the tokens the lexer produces for   *)
(* it.                                                                     *)
(***************************************************************************)
\* the tokens of the punctuation and of the keywords (scanToken)
K == [LBRACE |-> Tok("LBRACE", "{"), RBRACE |-> Tok("RBRACE", "}"),
      LBRACKET |-> Tok("LBRACKET", "["), RBRACKET |-> Tok("RBRACKET", "]"),
      ASSIGN |-> Tok("ASSIGN", "="), COMMA |-> Tok("COMMA", ","),
      include |-> Tok("INCLUDE", "include"),
      include_platform |-> Tok("INCLUDE_PLATFORM", "include_platform"),
      variable |-> Tok("VARIABLE", "variable"), template |-> Tok("TEMPLATE", "template"),
      when |-> Tok("WHEN", "when"), depends_on |-> Tok("DEPENDS_ON", "depends_on")]

IDENT(s) == Tok("IDENT", s)
Str(s) == Tok("STRING", s)

\* the tokens of each statement
StatementTokens ==
    [file |-> <<IDENT("file"), Str("P"), K.LBRACE, K.RBRACE>>,
     include_block |-> <<K.include, Str("I"), K.LBRACE, K.RBRACE>>,
     include |-> <<K.include, Str("I")>>,
     include_braces |-> <<K.include, K.LBRACE, IDENT("linux"), K.ASSIGN, Str("l"), K.RBRACE>>,
     variable |-> <<K.variable, Str("V"), K.LBRACE, IDENT("value"), K.ASSIGN, Str("v"), K.RBRACE>>,
     template |-> <<K.template, Str("T"), K.LBRACE, IDENT("content"), K.ASSIGN, Str("c"), K.RBRACE>>,
     include_platform |-> <<K.include_platform, K.LBRACE, IDENT("linux"), K.ASSIGN, Str("l"), K.RBRACE>>,
     good |-> <<IDENT("resource"), Str("good"), K.LBRACE, IDENT("attr"), K.ASSIGN, Str("value"),
                K.RBRACE>>,
     service |-> <<IDENT("service"), Str("s"), K.LBRACE,
                   K.depends_on, K.LBRACKET, IDENT("file"), K.LBRACE, Str("P"), K.RBRACE, K.RBRACKET,
                   K.when, K.ASSIGN, K.LBRACE, IDENT("platform"), K.ASSIGN,
                         K.LBRACKET, Str("linux"), K.COMMA, Str("darwin"), K.RBRACKET, K.RBRACE,
                   K.RBRACE>>,
     package |-> <<IDENT("package"), Str("p"), K.LBRACE,
                   IDENT("options"), K.ASSIGN, K.LBRACE, IDENT("a"), K.ASSIGN, Str("1"), K.RBRACE,
                   IDENT("version"), K.ASSIGN, Tok("NUMBER", "2"), K.RBRACE>>,
     bad |-> <<IDENT("resource"), Str("bad"), K.LBRACE, Tok("ILLEGAL", "@"), K.RBRACE>>,
     bad_nested |-> <<IDENT("file"), Str("N"), K.LBRACE,
                      K.when, K.ASSIGN, K.LBRACE, IDENT("platform"), K.ASSIGN, Str("linux"), K.RBRACE,
                      IDENT("mode"), K.ASSIGN, Str("0644"), K.RBRACE>>,
     bad_before_nested |-> <<IDENT("file"), Str("M"), K.LBRACE,
                             IDENT("mode"), K.ASSIGN, Tok("ILLEGAL", "@"),
                             K.when, K.ASSIGN, K.LBRACE, IDENT("platform"), K.ASSIGN,
                                   K.LBRACKET, Str("linux"), K.RBRACKET, K.RBRACE,
                             K.RBRACE>>,
     readme_service |-> <<IDENT("service"), Str("nginx"), K.LBRACE,
                          IDENT("name"), K.ASSIGN, Str("nginx"),
                          IDENT("state"), K.ASSIGN, Str("running"),
                          IDENT("enabled"), K.ASSIGN, IDENT("true"),
                          K.depends_on, K.LBRACKET, IDENT("file"), K.LBRACE, Str("/etc/nginx/nginx.conf"),
                                        K.RBRACE, K.RBRACKET,
                          K.RBRACE>>]

\* the resource each well-formed statement denotes
StatementResource ==
    [file |-> [Type |-> "file", Name |-> "P", Attributes |-> [path |-> StringValue("P")],
               DependsOn |-> <<>>, Conditions |-> EmptyMap],
     include_block |-> [Type |-> "include", Name |-> "I",
                        Attributes |-> [path |-> StringValue("I")],
                        DependsOn |-> <<>>, Conditions |-> EmptyMap],
     include |-> [Type |-> "include", Name |-> "I", Attributes |-> [path |-> StringValue("I")],
                  DependsOn |-> <<>>, Conditions |-> EmptyMap],
     variable |-> [Type |-> "variable", Name |-> "V",
                   Attributes |-> [name |-> StringValue("V"), value |-> StringValue("v")],
                   DependsOn |-> <<>>, Conditions |-> EmptyMap],
     template |-> [Type |-> "template", Name |-> "T",
                   Attributes |-> [name |-> StringValue("T"), content |-> StringValue("c")],
                   DependsOn |-> <<>>, Conditions |-> EmptyMap],
     include_platform |-> [Type |-> "include_platform", Name |-> "platform",
                           Attributes |-> [linux |-> StringValue("l")],
                           DependsOn |-> <<>>, Conditions |-> EmptyMap],
     good |-> [Type |-> "resource", Name |-> "good",
               Attributes |-> [attr |-> StringValue("value")],
               DependsOn |-> <<>>, Conditions |-> EmptyMap],
     service |-> [Type |-> "service", Name |-> "s", Attributes |-> EmptyMap,
                  DependsOn |-> <<(<<"file", "P">>)>>,
                  Conditions |-> [platform |-> <<"linux", "darwin">>]],
     package |-> [Type |-> "package", Name |-> "p",
                  Attributes |-> [options |-> MapValue([a |-> "1"]),
                                  version |-> StringValue("2")],
                  DependsOn |-> <<>>, Conditions |-> EmptyMap]]

BlockStatements == {"file", "include_block", "variable", "template", "include_platform", "good",
                    "service", "package"}
BadBlocks == {"bad", "bad_nested", "bad_before_nested"}
Statements == DOMAIN StatementTokens

MaxStatements == 3

Sources == SeqsUpTo(Statements, MaxStatements)

\* the token stream of a text
RECURSIVE Lex(_)
Lex(src) == IF src = <<>> THEN <<>> ELSE StatementTokens[Head(src)] \o Lex(Tail(src))

(***************************************************************************)
(* NewParser and Parser.Parse as a state machine.                          *)
(***************************************************************************)
ParserInit ==
    /\ source \in Sources
    /\ tokens = Lex(source)
    /\ pos = 1
    /\ Resources = <<>>
    /\ errors = <<>>
    /\ ppc = "parse"
    /\ parseErr = 0
    /\ cs = NoScanner
    /\ goos = "linux"
    /\ EngineIdle
    /\ IncludeIdle
    /\ ProviderIdle

ParseStep(types) ==
    /\ ppc = "parse"
    /\ Current(tokens, pos).Type \in types
    /\ \E st \in {ParseIteration(tokens, [pos |-> pos, Resources |-> Resources,
                                               errors |-> errors])} :
          /\ pos' = st.pos
          /\ Resources' = st.Resources
          /\ errors' = st.errors
    /\ UNCHANGED <<source, tokens, ppc, parseErr, cs>>

\* an iteration that starts at the include keyword
ParseInclude == ParseStep({"INCLUDE"}) /\ UNCHANGED otherThanParser

\* an iteration that starts at the include_platform keyword
ParseIncludePlatform == ParseStep({"INCLUDE_PLATFORM"}) /\ UNCHANGED otherThanParser

\* an iteration that starts at an identifier or at variable / template
ParseResource == ParseStep({"IDENT", "VARIABLE", "TEMPLATE"}) /\ UNCHANGED otherThanParser

\* an iteration that starts at any other token
ParseUnexpected ==
    /\ ParseStep({"ILLEGAL", "STRING", "NUMBER", "LBRACE", "RBRACE", "LPAREN", "RPAREN",
                  "LBRACKET", "RBRACKET", "ASSIGN", "COMMA", "WHEN", "DEPENDS_ON"})
    /\ UNCHANGED otherThanParser

\* the end of the input: Parse returns p.Resources and, if any error was
\* recorded, the error "parsing failed with N errors"
ParseReturn ==
    /\ ppc = "parse"
    /\ Current(tokens, pos).Type = "EOF"
    /\ ppc' = "done"
    /\ parseErr' = Len(errors)
    /\ UNCHANGED <<source, tokens, pos, Resources, errors, cs>>
    /\ UNCHANGED otherThanParser

ParserNext ==
    \/ ParseInclude
    \/ ParseIncludePlatform
    \/ ParseResource
    \/ ParseUnexpected
    \/ ParseReturn

SpecParser == ParserInit /\ [][ParserNext]_vars

(***************************************************************************)
(* Properties of the parser.                                               *)
(***************************************************************************)
\* the resources the statements of a text denote, in source order
RECURSIVE Denoted(_)
Denoted(src) ==
    IF src = <<>> THEN <<>>
    ELSE (IF Head(src) \in DOMAIN StatementResource THEN <<StatementResource[Head(src)]>>
          ELSE <<>>) \o Denoted(Tail(src))

\* the token index at which statement i of the text begins (the index after the
\* last token for i = Len(src) + 1)
RECURSIVE StartOf(_, _)
StartOf(src, i) == IF i = 1 THEN 1 ELSE StartOf(src, i - 1) + Len(StatementTokens[src[i - 1]])

Boundaries(src) == {StartOf(src, i) : i \in 1..(Len(src) + 1)}

Uses(S) == Range(source) \cap S # {}
Only(S) == Range(source) \subseteq S

\* C8: for a text made of README-style include statements (keyword and quoted
\* pattern, no block) and of well-formed blocks, Parse records no error and
\* returns, in source order, one include directive with path PATTERN for each
\* include statement and the resource of each block, unchanged.
C8_IncludeStatementParsed ==
    (ppc = "done" /\ Only({"include"} \cup (BlockStatements \ {"include_block"}))) =>
        /\ errors = <<>>
        /\ parseErr = 0
        /\ Resources = Denoted(source)

\* C9: for a text made of well-formed blocks, Parse returns no error and one
\* resource per block in source order; a block headed by include, variable or
\* template has that type, any other block its identifier, and the name is
\* copied to file.path, include.path, variable.name and template.name.
C9_OneResourcePerBlock ==
    (ppc = "done" /\ Only(BlockStatements)) =>
        /\ parseErr = 0
        /\ Resources = Denoted(source)

\* C10: for a text made of well-formed blocks and of blocks that contain a
\* parse error, every iteration of Parse starts at the first token of a block
\* (after an erroneous block: behind its closing brace), and Parse returns
\* exactly the well-formed blocks, in source order, with a non-nil error if and
\* only if some block is erroneous.
C10_ResumesAfterBadBlock ==
    Only((BlockStatements \ {"include_block"}) \cup BadBlocks) =>
        /\ ppc = "parse" => pos \in Boundaries(source)
        /\ ppc = "done" =>
              /\ Resources = Denoted(source)
              /\ (parseErr # 0) <=> Uses(BadBlocks)
              /\ Len(errors) = Cardinality({i \in DOMAIN source : source[i] \in BadBlocks})

(***************************************************************************)
(* Include handler: strings.  In this component a string is the sequence   *)
(* of its characters.                                                      *)
(***************************************************************************)
\* strings.HasPrefix, strings.HasSuffix
HasPrefix(s, prefix) == Len(s) >= Len(prefix) /\ SubSeq(s, 1, Len(prefix)) = prefix
HasSuffix(s, suffix) ==
    Len(s) >= Len(suffix) /\ SubSeq(s, Len(s) - Len(suffix) + 1, Len(s)) = suffix

\* strings.ReplaceAll for a non-empty old: the non-overlapping occurrences of
\* old, from left to right, are replaced by new
RECURSIVE ReplaceAllFrom(_, _, _, _)
ReplaceAllFrom(s, i, old, new) ==
    IF i > Len(s) THEN <<>>
    ELSE IF i + Len(old) - 1 <= Len(s) /\ SubSeq(s, i, i + Len(old) - 1) = old
    THEN new \o ReplaceAllFrom(s, i + Len(old), old, new)
    ELSE <<s[i]>> \o ReplaceAllFrom(s, i + 1, old, new)

\* a replacement that takes references in the form ${name}
ReplaceAllBraced(s, old, new) ==
    ReplaceAllFrom(s, 1, <<Head(old), "{">> \o Tail(old) \o <<"}">>, new)

ReplaceAll(s, old, new) == ReplaceAllFrom(s, 1, old, new)

\* IncludeHandler.ReplaceVariables; order is the order in which the range
\* over the map h.Variables yields the names
RECURSIVE ReplaceVariables(_, _, _)
ReplaceVariables(content, table, order) ==
    IF order = <<>> THEN content
    ELSE ReplaceVariables(ReplaceAll(content, <<"$">> \o Head(order), table[Head(order)]),
                          table, Tail(order))

\* the orders a range over the map may take
MapOrders(table) == Perms(DOMAIN table)

\* value.(string)
IsString(attrs, key) == key \in DOMAIN attrs /\ attrs[key].T = "string"
StringOf(v) == v.L[1]

(***************************************************************************)
(* The files of a run: config files are given by their tokens, data files  *)
(* by their content.                                                       *)
(***************************************************************************)
ConfigStatements ==
    [var_d |-> <<K.variable, Str(<<"d">>), K.LBRACE,
                 IDENT("value"), K.ASSIGN, Str(<<"/", "t", "m", "p", "/", "x">>), K.RBRACE>>,
     file_y |-> <<IDENT("file"), Str(<<"$", "d", "/", "y">>), K.LBRACE,
                  IDENT("content"), K.ASSIGN, Str(<<"$", "d">>), K.RBRACE>>,
     tmpl_T |-> <<K.template, Str(<<"T">>), K.LBRACE,
                  IDENT("content"), K.ASSIGN, Str(<<"a", " ", "$", "d">>), K.RBRACE>>,
     file_t |-> <<IDENT("file"), Str(<<"t">>), K.LBRACE,
                  IDENT("content"), K.ASSIGN,
                  Str(<<"t", "e", "m", "p", "l", "a", "t", "e", "(", "T", ")">>), K.RBRACE>>,
     inc_platform |-> <<K.include_platform, K.LBRACE,
                        IDENT("linux"), K.ASSIGN, Str(<<"*">>), K.RBRACE>>,
     inc_readme |-> <<K.include, Str(<<"*">>)>>,
     svc_noname |-> <<IDENT("service"), Str(<<>>), K.LBRACE, K.RBRACE>>,
     inc_none |-> <<K.include_platform, K.LBRACE,
                    IDENT("linux"), K.ASSIGN, Str(<<"n">>), K.RBRACE>>,
     bad |-> <<IDENT("file"), Str(<<"b">>), K.LBRACE, Tok("ILLEGAL", "@"), K.RBRACE>>]

RECURSIVE LexConfig(_)
LexConfig(src) ==
    IF src = <<>> THEN <<>> ELSE ConfigStatements[Head(src)] \o LexConfig(Tail(src))

MaxConfig == 3

\* the config files on disk: main, and sub if it exists
FileSystems ==
    LET MainSources == SeqsUpTo(DOMAIN ConfigStatements \ {"bad"}, MaxConfig)
                           \cup {<<"file_y", "bad">>}
        SubSources == {<<"file_y">>, <<"bad">>}
    IN  {[f \in {"main"} |-> LexConfig(m)] : m \in MainSources}
        \cup {[f \in {"main", "sub"} |-> IF f = "main" THEN LexConfig(m) ELSE LexConfig(s)] :
                 m \in MainSources, s \in SubSources}

\* the path of each config file, as an include pattern names it
PathOf == [lib |-> <<"l">>, main |-> <<"m">>, sub |-> <<"s">>]

\* filepath.Glob(h.resolveIncludePath(configFile, pattern)): the existing
\* files the pattern matches, in lexical order
Glob(fs, pattern) ==
    SelectSeq(<<"lib", "main", "sub">>,
              LAMBDA f : f \in DOMAIN fs /\ (pattern = <<"*">> \/ pattern = PathOf[f]))

\* the data files file("...") may read
DataFiles == [x \in {<<"f">>} |-> <<"F", " ", "$", "d">>]

(***************************************************************************)
(* IncludeHandler.ProcessIncludes and ProcessTemplates as a state machine. *)
(* A frame of the stack is one active call of ProcessIncludes: its file,   *)
(* fileResources, the index of the loop over them, allResources, and the   *)
(* matches of the include statement it is working on.                      *)
(***************************************************************************)
Nil == "nil"

\* ProcessIncludes without the check of ProcessedFiles: every call reads its file
EnterFileReadingAgain(file, fs, processed, stk) ==
    IF file \notin DOMAIN fs
    THEN [processed |-> processed \cup {file}, stack |-> stk,
          err |-> "error reading config file", read |-> <<file>>]
    ELSE IF Parse(fs[file]).errors # <<>>
    THEN [processed |-> processed \cup {file}, stack |-> stk,
          err |-> "error parsing config file", read |-> <<file>>]
    ELSE [processed |-> processed \cup {file},
          stack |-> Append(stk, [file |-> file, fileResources |-> Parse(fs[file]).Resources,
                                 i |-> 1, allResources |-> <<>>, matches |-> <<>>]),
          err |-> Nil, read |-> <<file>>]

\* ProcessIncludes up to the loop (include_handler.go:62-92), called with the
\* stack stk; the call returns at once if the file was processed before, and
\* fails if the file cannot be read or parsed
\* a call that passes over a file it cannot read or parse and carries on
EnterFileSkippingBadFile(file, fs, processed, stk) ==
    IF file \in processed
    THEN [processed |-> processed, stack |-> stk, err |-> Nil, read |-> <<>>]
    ELSE IF file \notin DOMAIN fs \/ Parse(fs[file]).errors # <<>>
    THEN [processed |-> processed \cup {file}, stack |-> stk, err |-> Nil, read |-> <<file>>]
    ELSE [processed |-> processed \cup {file},
          stack |-> Append(stk, [file |-> file, fileResources |-> Parse(fs[file]).Resources,
                                 i |-> 1, allResources |-> <<>>, matches |-> <<>>]),
          err |-> Nil, read |-> <<file>>]

EnterFile(file, fs, processed, stk) ==
    IF file \in processed
    THEN [processed |-> processed, stack |-> stk, err |-> Nil, read |-> <<>>]
    ELSE IF file \notin DOMAIN fs
    THEN [processed |-> processed \cup {file}, stack |-> stk,
          err |-> "error reading config file", read |-> <<file>>]
    ELSE IF Parse(fs[file]).errors # <<>>
    THEN [processed |-> processed \cup {file}, stack |-> stk,
          err |-> "error parsing config file", read |-> <<file>>]
    ELSE [processed |-> processed \cup {file},
          stack |-> Append(stk, [file |-> file, fileResources |-> Parse(fs[file]).Resources,
                                 i |-> 1, allResources |-> <<>>, matches |-> <<>>]),
          err |-> Nil, read |-> <<file>>]

\* the effect of a call of ProcessIncludes on the handler's state
Entered(r) ==
    /\ ProcessedFiles' = r.processed
    /\ reads' = reads \o r.read
    /\ IF r.err # Nil
       THEN /\ stack' = <<>>
            /\ ierr' = r.err
            /\ ipc' = "done"
            /\ included' = <<>>
       ELSE /\ stack' = r.stack
            /\ ierr' = ierr
            /\ IF r.stack = <<>>
               THEN ipc' = "included" /\ included' = <<>>
               ELSE ipc' = "includes" /\ included' = included

IncludeInit ==
    /\ files \in FileSystems
    /\ goos \in HostOSes
    /\ ProcessedFiles = {}
    /\ Variables = EmptyMap
    /\ Templates = EmptyMap
    /\ stack = <<>>
    /\ reads = <<>>
    /\ included = <<>>
    /\ given = <<>>
    /\ result = <<>>
    /\ ierr = Nil
    /\ ipc = "new"
    /\ EngineIdle
    /\ ParserIdle
    /\ ProviderIdle

\* IncludeHandler.SetVariable
SetVariable ==
    /\ ipc = "new"
    /\ Variables = EmptyMap
    /\ Variables' = Put(Variables, <<"d">>, <<"/", "v">>)
    /\ UNCHANGED <<files, ProcessedFiles, Templates, stack, reads, included, given, result, ierr, ipc>>
    /\ UNCHANGED otherThanInclude

\* IncludeHandler.SetTemplate
SetTemplate ==
    /\ ipc = "new"
    /\ Templates = EmptyMap
    /\ Templates' = Put(Templates, <<"T">>, <<"a", " ", "$", "d">>)
    /\ UNCHANGED <<files, ProcessedFiles, Variables, stack, reads, included, given, result, ierr, ipc>>
    /\ UNCHANGED otherThanInclude

\* main: handler.ProcessIncludes(configFile)
ProcessIncludes ==
    /\ ipc = "new"
    /\ \E configFile \in {"main", "missing"} :
          Entered(EnterFile(configFile, files, ProcessedFiles, stack))
    /\ UNCHANGED <<files, Variables, Templates, given, result>>
    /\ UNCHANGED otherThanInclude

Top == stack[Len(stack)]
AtResource == ipc = "includes" /\ Top.matches = <<>> /\ Top.i <= Len(Top.fileResources)
TopResource == Top.fileResources[Top.i]
SetTop(frame) == [stack EXCEPT ![Len(stack)] = frame]

\* the pattern of an include or include_platform resource ("" if none)
IncludePattern(resource, os) ==
    IF resource.Type = "include"
    THEN IF IsString(resource.Attributes, "path")
         THEN StringOf(resource.Attributes["path"]) ELSE <<>>
    ELSE IF os \in {"linux", "darwin", "windows"} /\ IsString(resource.Attributes, os)
         THEN StringOf(resource.Attributes[os]) ELSE <<>>

\* case "include", case "include_platform": the matches of the pattern
IncludeStatement ==
    /\ AtResource
    /\ TopResource.Type \in {"include", "include_platform"}
    /\ stack' = SetTop([Top EXCEPT !.i = @ + 1,
                                   !.matches = Glob(files, IncludePattern(TopResource, goos))])
    /\ UNCHANGED <<files, ProcessedFiles, Variables, Templates, reads, included, given, result, ierr,
                   ipc>>
    /\ UNCHANGED otherThanInclude

\* the loop over the matches: h.ProcessIncludes(match)
IncludeFile ==
    /\ ipc = "includes"
    /\ Top.matches # <<>>
    /\ Entered(EnterFile(Head(Top.matches), files, ProcessedFiles,
                         SetTop([Top EXCEPT !.matches = Tail(@)])))
    /\ UNCHANGED <<files, Variables, Templates, given, result>>
    /\ UNCHANGED otherThanInclude

\* case "variable"
DefineVariable ==
    /\ AtResource
    /\ TopResource.Type = "variable"
    /\ IF IsString(TopResource.Attributes, "value")
       THEN \E order \in MapOrders(Variables) :
               Variables' = Put(Variables, TopResource.Name,
                                ReplaceVariables(StringOf(TopResource.Attributes["value"]),
                                                 Variables, order))
       ELSE Variables' = Variables
    /\ stack' = SetTop([Top EXCEPT !.i = @ + 1])
    /\ UNCHANGED <<files, ProcessedFiles, Templates, reads, included, given, result, ierr, ipc>>
    /\ UNCHANGED otherThanInclude

\* case "template"
DefineTemplate ==
    /\ AtResource
    /\ TopResource.Type = "template"
    /\ Templates' = IF IsString(TopResource.Attributes, "content")
                    THEN Put(Templates, TopResource.Name,
                             StringOf(TopResource.Attributes["content"]))
                    ELSE Templates
    /\ stack' = SetTop([Top EXCEPT !.i = @ + 1])
    /\ UNCHANGED <<files, ProcessedFiles, Variables, reads, included, given, result, ierr, ipc>>
    /\ UNCHANGED otherThanInclude

\* the attributes of a resource with ReplaceVariables applied to the string
\* ones, orders[key] being the map order of the call for attribute key
ExpandAttributes(attrs, table, orders) ==
    [key \in DOMAIN attrs |->
        IF attrs[key].T = "string"
        THEN StringValue(ReplaceVariables(StringOf(attrs[key]), table, orders[key]))
        ELSE attrs[key]]

\* a processedResource whose name is expanded like its string attributes
processedResourceExpandingName(resource, table, orders) ==
    [resource EXCEPT !.Name = ReplaceVariables(@, table, CHOOSE o \in MapOrders(table) : TRUE),
                     !.Attributes = ExpandAttributes(@, table, orders)]

\* default: the resource with its string attributes expanded
processedResource(resource, table, orders) ==
    [resource EXCEPT !.Attributes = ExpandAttributes(@, table, orders)]

\* default: a regular resource
RegularResource ==
    /\ AtResource
    /\ TopResource.Type \notin {"include", "include_platform", "variable", "template"}
    /\ \E orders \in [DOMAIN TopResource.Attributes -> MapOrders(Variables)] :
          stack' = SetTop([Top EXCEPT
                             !.i = @ + 1,
                             !.allResources =
                                 Append(@, processedResource(TopResource, Variables, orders))])
    /\ UNCHANGED <<files, ProcessedFiles, Variables, Templates, reads, included, given, result,
                   ierr, ipc>>
    /\ UNCHANGED otherThanInclude

\* return allResources, nil: to the calling ProcessIncludes, which appends
\* them to its own, or to main
ReturnResources ==
    /\ ipc = "includes"
    /\ Top.matches = <<>>
    /\ Top.i > Len(Top.fileResources)
    /\ IF Len(stack) = 1
       THEN /\ included' = Top.allResources
            /\ ipc' = "included"
            /\ stack' = <<>>
       ELSE /\ stack' = [SubSeq(stack, 1, Len(stack) - 1) EXCEPT
                            ![Len(stack) - 1].allResources = @ \o Top.allResources]
            /\ UNCHANGED <<included, ipc>>
    /\ UNCHANGED <<files, ProcessedFiles, Variables, Templates, reads, given, result, ierr>>
    /\ UNCHANGED otherThanInclude

(***************************************************************************)
(* IncludeHandler.ProcessTemplates                                         *)
(***************************************************************************)
TemplatePrefix == <<"t", "e", "m", "p", "l", "a", "t", "e", "(">>
FilePrefix == <<"f", "i", "l", "e", "(">>

\* strValue[n : len(strValue)-1]
Argument(strValue, n) == SubSeq(strValue, n + 1, Len(strValue) - 1)

\* what ProcessTemplates stores for one attribute value (include_handler.go:
\* 212-234): [val, err]
processAttribute(v, templates, table, order) ==
    IF v.T # "string" THEN [val |-> v, err |-> Nil]
    ELSE IF HasPrefix(StringOf(v), TemplatePrefix) /\ HasSuffix(StringOf(v), <<")">>)
    THEN IF Argument(StringOf(v), 9) \in DOMAIN templates
         THEN [val |-> StringValue(ReplaceVariables(templates[Argument(StringOf(v), 9)],
                                                    table, order)),
               err |-> Nil]
         ELSE [val |-> v, err |-> Nil]
    ELSE IF HasPrefix(StringOf(v), FilePrefix) /\ HasSuffix(StringOf(v), <<")">>)
    THEN IF Argument(StringOf(v), 5) \in DOMAIN DataFiles
         THEN [val |-> StringValue(ReplaceVariables(DataFiles[Argument(StringOf(v), 5)],
                                                    table, order)),
               err |-> Nil]
         ELSE [val |-> v, err |-> "error reading file"]
    ELSE [val |-> v, err |-> Nil]

\* the resources with every attribute processed; orders[i][key] is the map
\* order of the ReplaceVariables call for attribute key of resource i
processAll(rs, templates, table, orders) ==
    [i \in DOMAIN rs |->
        [key \in DOMAIN rs[i].Attributes |->
            processAttribute(rs[i].Attributes[key], templates, table, orders[i][key])]]

AttributeOrders(rs, table) ==
    {o \in [DOMAIN rs -> UNION {[DOMAIN rs[i].Attributes -> MapOrders(table)] : i \in DOMAIN rs}] :
        \A i \in DOMAIN rs : DOMAIN o[i] = DOMAIN rs[i].Attributes}

\* resource lists handed to ProcessTemplates directly
DirectInputs ==
    {<<NewResource("file", <<"r">>, [content |-> StringValue(c)])>> :
        c \in {TemplatePrefix \o <<"\"", "T", "\"", ")">>,
               TemplatePrefix \o <<"T", ")">>,
               FilePrefix \o <<"f", ")">>,
               FilePrefix \o <<"g", ")">>,
               <<"$", "d">>}}

\* main: handler.ProcessTemplates(resources) on what ProcessIncludes returned;
\* or a call after SetVariable / SetTemplate
ProcessTemplates ==
    /\ ipc \in {"new", "included"}
    /\ \E rs \in (IF ipc = "included" THEN {included} ELSE DirectInputs) :
          \E orders \in AttributeOrders(rs, Variables) :
             \E p \in {processAll(rs, Templates, Variables, orders)} :
                /\ given' = rs
                /\ IF \E i \in DOMAIN p : \E key \in DOMAIN p[i] : p[i][key].err # Nil
                   THEN /\ result' = <<>>
                        /\ ierr' = "error reading file"
                   ELSE /\ result' = [i \in DOMAIN rs |->
                               [rs[i] EXCEPT !.Attributes =
                                   [key \in DOMAIN p[i] |-> p[i][key].val]]]
                        /\ ierr' = ierr
    /\ ipc' = "done"
    /\ UNCHANGED <<files, ProcessedFiles, Variables, Templates, stack, reads, included>>
    /\ UNCHANGED otherThanInclude

\* main exits when ProcessIncludes failed
IncludeNext ==
    \/ SetVariable
    \/ SetTemplate
    \/ ProcessIncludes
    \/ IncludeStatement
    \/ IncludeFile
    \/ DefineVariable
    \/ DefineTemplate
    \/ RegularResource
    \/ ReturnResources
    \/ ProcessTemplates

SpecInclude == IncludeInit /\ [][IncludeNext]_vars

(***************************************************************************)
(* Properties of the include handler.                                      *)
(***************************************************************************)
\* the claim's config: variable "d" { value = "/tmp/x" } file "$d/y" { content = "$d" }
ExampleConfig == [f \in {"main"} |-> LexConfig(<<"var_d", "file_y">>)]

\* the same two blocks in the other order
ExampleReversed == [f \in {"main"} |-> LexConfig(<<"file_y", "var_d">>)]

TmpX == <<"/", "t", "m", "p", "/", "x">>
TmpXY == <<"/", "t", "m", "p", "/", "x", "/", "y">>
DollarDY == <<"$", "d", "/", "y">>

\* the resources written in the files read so far
Written == UNION {Range(Parse(files[f]).Resources) : f \in Range(reads) \cap DOMAIN files}

\* the variable tables a run goes through
VariableTables == {EmptyMap} \cup {[x \in {<<"d">>} |-> val] : val \in {TmpX, <<"/", "v">>}}

\* v is w with the variable references expanded under one of the tables
ExpandedFrom(v, w) ==
    /\ v.T = w.T
    /\ IF w.T = "string"
       THEN \E table \in VariableTables : \E order \in MapOrders(table) :
               v = StringValue(ReplaceVariables(StringOf(w), table, order))
       ELSE v = w

\* C6 as stated: include processing of the example config returns exactly one
\* resource, of type file, with name "/tmp/x/y", path "/tmp/x/y" and content
\* "/tmp/x": the variable reference is substituted in the name as well.
C6_NameAndAttributesExpanded ==
    (ipc = "included" /\ files = ExampleConfig) =>
        included = <<[NewResource("file", TmpXY, [path |-> StringValue(TmpXY),
                                                   content |-> StringValue(TmpX)])
                        EXCEPT !.Conditions = EmptyMap]>>

\* C6 amended: variable references are substituted in the string attributes of
\* a regular resource, among them the path the parser copied from the name, but
\* not in the name: every returned resource has the type, the name and the
\* attribute keys of a resource written in a file that was read, and each of its
\* attributes is the written value or the written value with the references
\* expanded; the example config gives one file resource with name "$d/y", path
\* "/tmp/x/y" and content "/tmp/x", and with the two blocks in the other order
\* the value the variable gets after its use is not substituted.
C6_AttributesExpandedNameKept ==
    ipc = "included" =>
        /\ \A i \in DOMAIN included :
              \E w \in Written :
                 /\ included[i].Type = w.Type
                 /\ included[i].Name = w.Name
                 /\ DOMAIN included[i].Attributes = DOMAIN w.Attributes
                 /\ \A key \in DOMAIN w.Attributes :
                       ExpandedFrom(included[i].Attributes[key], w.Attributes[key])
        /\ files = ExampleConfig =>
              included = <<NewResource("file", DollarDY, [path |-> StringValue(TmpXY),
                                                          content |-> StringValue(TmpX)])>>
        /\ files = ExampleReversed =>
              /\ Len(included) = 1
              /\ included[1].Name = DollarDY
              /\ included[1].Attributes["path"] # StringValue(TmpXY)
              /\ included[1].Attributes["content"] # StringValue(TmpX)

\* the example config has been processed
C6_Witness ==
    /\ ipc = "included"
    /\ files = ExampleConfig
    /\ reads = <<"main">>
    /\ Len(included) = 1
    /\ included[1].Name = DollarDY
    /\ Variables = [x \in {<<"d">>} |-> TmpX]

\* C7: after a successful ProcessTemplates, every string attribute of the given
\* resources whose whole value is template("NAME"), NAME a defined template, is
\* replaced by the body of that template with the variable references expanded.
C7_TemplateCallReplaced ==
    (ipc = "done" /\ ierr = Nil) =>
        \A i \in DOMAIN given :
           \A key \in DOMAIN given[i].Attributes :
              \A name \in DOMAIN Templates :
                 (/\ given[i].Attributes[key].T = "string"
                  /\ StringOf(given[i].Attributes[key]) =
                        TemplatePrefix \o <<"\"">> \o name \o <<"\"", ")">>)
                 => \E order \in MapOrders(Variables) :
                       result[i].Attributes[key] =
                          StringValue(ReplaceVariables(Templates[name], Variables, order))


(***************************************************************************)
(* Providers.  The live system a provider works on is the record host:     *)
(*   commands  the commands found on the PATH                              *)
(*   init      the init system the Linux probes find                       *)
(*   file      the target path: kind "absent", "file" or "dir", and for a  *)
(*             file or directory its content, permission bits, owner and   *)
(*             group                                                       *)
(*   src       the file a source attribute names                           *)
(*   pkg       whether the package is installed, and whether the package   *)
(*             manager can install it                                      *)
(*   svc       the service: running, enabled at boot, its definition file  *)
(*             (upstart .conf, launchd .plist) and upstart's .override     *)
(*   feature   whether the Windows feature is installed                    *)
(* Attributes are a map from attribute names to strings (enabled: a        *)
(* boolean); an attribute the resource does not set is not in the map.     *)
(***************************************************************************)
Has(attributes, key) == key \in DOMAIN attributes

Get(attributes, key, default) == IF Has(attributes, key) THEN attributes[key] ELSE default

\* What Apply hands back: the system it leaves, and the ResourceState's Status and Error.
ResourceState(h, status, error) == [host |-> h, Status |-> status, Error |-> error]

\* strconv.ParseInt(mode, 8, 32) on the mode strings of the model; "rw" does not parse.
ParseInt8 == ("600" :> 384) @@ ("644" :> 420) @@ ("755" :> 493) @@ ("4755" :> 2541)

AbsentFile == [kind |-> "absent", content |-> "", perm |-> 0, owner |-> "", group |-> ""]

FileValidate(attributes) ==
    IF ~Has(attributes, "path") THEN "file resource requires 'path' attribute"
    ELSE IF /\ Has(attributes, "content") /\ Has(attributes, "source")
            /\ attributes["source"] # "" /\ attributes["content"] # ""
         THEN "file resource cannot have both 'content' and 'source' attributes"
    ELSE IF Has(attributes, "state")
            /\ attributes["state"] \notin {"present", "absent", "directory"}
         THEN "file 'state' must be one of: present, absent, directory"
    ELSE IF Has(attributes, "mode") /\ attributes["mode"] \notin DOMAIN ParseInt8
         THEN "invalid file mode"
    ELSE Nil

\* calculateMD5: the digest of a file's content.
calculateMD5(content) == <<"md5", content>>

\* os.Chown after the lookups, then os.Chmod; the first error ends it.  user.Lookup and
\* user.LookupGroup find root and web.  os.Chmod(path, os.FileMode(modeVal)) applies the
\* permission bits of the FileMode, its low nine bits, and the flags ModeSetuid, ModeSetgid
\* and ModeSticky, which are bits 23, 22 and 20 of a FileMode and not the octal 4000, 2000
\* and 1000 of a mode string.
setPermissions(h, attributes) ==
    IF Has(attributes, "owner") /\ attributes["owner"] \notin {"root", "web"}
    THEN [host |-> h, err |-> "failed to lookup owner"]
    ELSE IF Has(attributes, "group") /\ attributes["group"] \notin {"root", "web"}
    THEN [host |-> h, err |-> "failed to lookup group"]
    ELSE IF h.file.kind = "absent"
            /\ (Has(attributes, "owner") \/ Has(attributes, "group") \/ Has(attributes, "mode"))
    THEN [host |-> h, err |-> "no such file or directory"]
    ELSE [host |-> [h EXCEPT !.file.owner = Get(attributes, "owner", @),
                             !.file.group = Get(attributes, "group", @),
                             !.file.perm = IF Has(attributes, "mode")
                                           THEN ParseInt8[attributes["mode"]] % 512 ELSE @],
          err |-> Nil]

\* An end of the two cases that marks the result failed and returns it with a nil error.
withPermissionsErrorNotReturned(h, attributes, os, status) ==
    IF os = "windows" THEN ResourceState(h, status, Nil)
    ELSE IF setPermissions(h, attributes).err # Nil
    THEN ResourceState(h, "failed", Nil)
    ELSE ResourceState(setPermissions(h, attributes).host, status, Nil)

\* The end of the directory and present cases: permissions are set except on Windows.
withPermissions(h, attributes, os, status) ==
    IF os = "windows" THEN ResourceState(h, status, Nil)
    ELSE IF setPermissions(h, attributes).err # Nil
    THEN ResourceState(h, "failed", setPermissions(h, attributes).err)
    ELSE ResourceState(setPermissions(h, attributes).host, status, Nil)

\* ioutil.WriteFile(path, data, 0644): a new file gets 0644 and the caller as owner; an
\* existing one keeps its permissions and owner.
WriteFile(h, data) ==
    IF h.file.kind = "file" THEN [h EXCEPT !.file.content = data]
    ELSE [h EXCEPT !.file = [kind |-> "file", content |-> data, perm |-> 420,
                             owner |-> "root", group |-> "root"]]

\* os.MkdirAll(path, 0755) on a path that does not exist.
MkdirAll(h) ==
    [h EXCEPT !.file = [kind |-> "dir", content |-> "", perm |-> 493,
                        owner |-> "root", group |-> "root"]]

\* The "Create or update file" part of the present case; h is the system after a
\* directory in the way has been removed, existed tells whether the path existed at entry.
FileApplyWrite(h, attributes, os, existed) ==
    IF Has(attributes, "content")
    THEN withPermissions(WriteFile(h, attributes["content"]), attributes, os,
                         IF existed THEN "updated" ELSE "created")
    ELSE IF Has(attributes, "source") /\ h.src.kind # "file"
    THEN ResourceState(h, "failed", "no such file or directory")
    ELSE IF Has(attributes, "source")
    THEN withPermissions(WriteFile(h, h.src.content), attributes, os,
                         IF existed THEN "updated" ELSE "created")
    ELSE withPermissions(h, attributes, os, IF existed THEN "updated" ELSE "created")

FileApply(h, attributes, os) ==
    IF Get(attributes, "state", "present") = "absent"
    THEN IF h.file.kind # "absent" THEN ResourceState([h EXCEPT !.file = AbsentFile], "deleted", Nil)
         ELSE ResourceState(h, "unchanged", Nil)
    ELSE IF Get(attributes, "state", "present") = "directory"
    THEN IF h.file.kind = "absent" THEN withPermissions(MkdirAll(h), attributes, os, "created")
         ELSE IF h.file.kind = "file" THEN withPermissions(MkdirAll(h), attributes, os, "updated")
         ELSE withPermissions(h, attributes, os, "unchanged")
    ELSE IF Get(attributes, "state", "present") # "present"
    THEN ResourceState(h, "unchanged", Nil)
    ELSE IF h.file.kind = "absent" THEN FileApplyWrite(h, attributes, os, FALSE)
         ELSE IF h.file.kind = "dir" THEN FileApplyWrite([h EXCEPT !.file = AbsentFile], attributes, os, TRUE)
         ELSE IF Has(attributes, "content")
         THEN IF h.file.content # attributes["content"]
              THEN FileApplyWrite(h, attributes, os, TRUE)
              ELSE withPermissions(h, attributes, os, "unchanged")
         ELSE IF Has(attributes, "source")
         THEN IF h.src.kind # "file" THEN ResourceState(h, "failed", "no such file or directory")
              ELSE IF calculateMD5(h.file.content) # calculateMD5(h.src.content)
              THEN FileApplyWrite(h, attributes, os, TRUE)
              ELSE withPermissions(h, attributes, os, "unchanged")
         ELSE withPermissions(h, attributes, os, "unchanged")

\* FileProvider.Plan's checks of owner, group and mode against the file on disk: whether
\* one of them sets the status to planned.  A mode that does not parse compares as 0.
permissionsDiffer(h, attributes) ==
    \/ Has(attributes, "owner") /\ h.file.owner # attributes["owner"]
    \/ Has(attributes, "group") /\ h.file.group # attributes["group"]
    \/ /\ Has(attributes, "mode")
       /\ h.file.perm # (IF attributes["mode"] \in DOMAIN ParseInt8
                         THEN ParseInt8[attributes["mode"]] ELSE 0)

\* FileProvider.Plan: the Status of the ResourceState it returns and its error; Plan
\* changes nothing on the system.
FilePlan(h, attributes, os) ==
    IF Get(attributes, "state", "present") = "absent"
    THEN [Status |-> IF h.file.kind # "absent" THEN "planned" ELSE "unchanged", Error |-> Nil]
    ELSE IF Get(attributes, "state", "present") = "directory"
    THEN [Status |-> IF h.file.kind # "dir" THEN "planned"
                     ELSE IF os # "windows" /\ permissionsDiffer(h, attributes) THEN "planned"
                     ELSE "unchanged",
          Error |-> Nil]
    ELSE IF Get(attributes, "state", "present") # "present"
    THEN [Status |-> "unchanged", Error |-> Nil]
    ELSE IF h.file.kind # "file" THEN [Status |-> "planned", Error |-> Nil]
    ELSE IF ~Has(attributes, "content") /\ Has(attributes, "source") /\ h.src.kind # "file"
    THEN [Status |-> "", Error |-> "no such file or directory"]
    ELSE [Status |-> IF Has(attributes, "content") /\ h.file.content # attributes["content"]
                     THEN "planned"
                     ELSE IF /\ ~Has(attributes, "content") /\ Has(attributes, "source")
                             /\ calculateMD5(h.file.content) # calculateMD5(h.src.content)
                     THEN "planned"
                     ELSE IF os # "windows" /\ permissionsDiffer(h, attributes) THEN "planned"
                     ELSE "unchanged",
          Error |-> Nil]

\* PlatformChecker.GetPackageManager: the first package manager found for the OS.
GetPackageManager(os, commands) ==
    IF os = "darwin" THEN IF "brew" \in commands THEN "brew"
                          ELSE IF "port" \in commands THEN "port" ELSE "unknown"
    ELSE IF os = "windows" THEN IF "choco" \in commands THEN "choco"
                                ELSE IF "winget" \in commands THEN "winget" ELSE "unknown"
    ELSE IF os = "linux" THEN IF "apt" \in commands \/ "apt-get" \in commands THEN "apt"
                              ELSE IF "dnf" \in commands THEN "dnf"
                              ELSE IF "yum" \in commands THEN "yum"
                              ELSE IF "pacman" \in commands THEN "pacman"
                              ELSE IF "zypper" \in commands THEN "zypper"
                              ELSE IF "apk" \in commands THEN "apk" ELSE "unknown"
    ELSE "unknown"

PackageValidate(h, attributes, os) ==
    IF ~Has(attributes, "name") THEN "package resource requires 'name' attribute"
    ELSE IF Has(attributes, "state")
            /\ attributes["state"] \notin {"installed", "removed", "latest"}
         THEN "package 'state' must be one of: installed, removed, latest"
    ELSE IF GetPackageManager(os, h.commands) = "unknown"
         THEN "no supported package manager found on this system"
    ELSE Nil

\* installPackage: the package manager's install command fails for a package it does
\* not know, and without a package manager there is no command to run.
installPackage(h, os) ==
    IF GetPackageManager(os, h.commands) = "unknown" \/ ~h.pkg.available
    THEN ResourceState(h, "failed", "failed to install package")
    ELSE ResourceState([h EXCEPT !.pkg.installed = TRUE], "created", Nil)

PackageApply(h, attributes, os) ==
    IF GetPackageManager(os, h.commands) = "unknown"
    THEN ResourceState(h, "failed", "unsupported package manager: unknown")
    ELSE IF Get(attributes, "state", "installed") = "installed"
    THEN IF ~h.pkg.installed THEN installPackage(h, os)
         ELSE ResourceState(h, "unchanged", Nil)
    ELSE IF Get(attributes, "state", "installed") = "removed"
    THEN IF h.pkg.installed
         THEN ResourceState([h EXCEPT !.pkg.installed = FALSE], "deleted", Nil)
         ELSE ResourceState(h, "unchanged", Nil)
    ELSE IF Get(attributes, "state", "installed") = "latest"
    THEN IF ~h.pkg.installed THEN installPackage(h, os)
         ELSE ResourceState(h, "updated", Nil)
    ELSE ResourceState(h, "unchanged", Nil)

\* PlatformChecker.DetectInitSystem; host.init is what the Linux probes find.
DetectInitSystem(h, os) ==
    IF os = "linux" THEN h.init
    ELSE IF os = "darwin" THEN "launchd"
    ELSE IF os = "windows" THEN "windows"
    ELSE "unknown"

ServiceValidate(attributes) ==
    IF ~Has(attributes, "name") THEN "service resource requires 'name' attribute"
    ELSE IF Has(attributes, "state")
            /\ attributes["state"] \notin {"running", "stopped", "restarted", "reloaded"}
         THEN "service 'state' must be one of: running, stopped, restarted, reloaded"
    ELSE Nil

getServiceProvider(h, attributes, os) ==
    IF Has(attributes, "provider") /\ attributes["provider"] # "auto"
    THEN attributes["provider"]
    ELSE DetectInitSystem(h, os)

\* getServiceState: upstart and launchd take the service for enabled when its definition
\* file exists; an init system the provider does not know reports neither.
getServiceState(h, provider) ==
    IF provider \in {"systemd", "sysvinit", "windows"}
    THEN [Running |-> h.svc.running, Enabled |-> h.svc.enabled]
    ELSE IF provider \in {"upstart", "launchd"}
    THEN [Running |-> h.svc.running, Enabled |-> h.svc.conf]
    ELSE [Running |-> FALSE, Enabled |-> FALSE]

\* startService.  launchd loads the service first when it has no plist, and then
\* finds none.
startService(h, provider) ==
    IF provider \in {"systemd", "upstart", "sysvinit", "windows"}
    THEN [host |-> [h EXCEPT !.svc.running = TRUE], err |-> Nil]
    ELSE IF provider = "launchd"
    THEN IF ~getServiceState(h, provider).Enabled
         THEN [host |-> h, err |-> "could not find plist for service"]
         ELSE [host |-> [h EXCEPT !.svc.running = TRUE], err |-> Nil]
    ELSE [host |-> h, err |-> "unsupported service provider"]

stopService(h, provider) ==
    IF provider \in {"systemd", "upstart", "sysvinit", "launchd", "windows"}
    THEN [host |-> [h EXCEPT !.svc.running = FALSE], err |-> Nil]
    ELSE [host |-> h, err |-> "unsupported service provider"]

\* restartService and reloadService: the init system's command, stop then start on
\* launchd and Windows, unload then load of the plist for a launchd reload.
restartService(h, provider, reload) ==
    IF provider \in {"systemd", "upstart", "sysvinit"}
    THEN [host |-> [h EXCEPT !.svc.running = IF reload THEN @ ELSE TRUE], err |-> Nil]
    ELSE IF provider = "launchd" /\ reload
    THEN IF ~h.svc.conf THEN [host |-> h, err |-> "could not find plist for service"]
         ELSE [host |-> [h EXCEPT !.svc.running = TRUE], err |-> Nil]
    ELSE IF provider \in {"launchd", "windows"}
    THEN startService(stopService(h, provider).host, provider)
    ELSE [host |-> h, err |-> "unsupported service provider"]

\* enableService: upstart only checks that the .conf file exists; launchd loads the plist.
enableService(h, provider) ==
    IF provider \in {"systemd", "sysvinit", "windows"}
    THEN [host |-> [h EXCEPT !.svc.enabled = TRUE], err |-> Nil]
    ELSE IF provider = "upstart"
    THEN IF h.svc.conf THEN [host |-> h, err |-> Nil]
         ELSE [host |-> h, err |-> "upstart service not found"]
    ELSE IF provider = "launchd"
    THEN IF h.svc.conf THEN [host |-> [h EXCEPT !.svc.running = TRUE], err |-> Nil]
         ELSE [host |-> h, err |-> "could not find plist for service"]
    ELSE [host |-> h, err |-> "unsupported service provider"]

\* disableService: upstart writes the .override file and leaves the .conf file; launchd
\* unloads the plist and leaves it in place.
disableService(h, provider) ==
    IF provider \in {"systemd", "sysvinit", "windows"}
    THEN [host |-> [h EXCEPT !.svc.enabled = FALSE], err |-> Nil]
    ELSE IF provider = "upstart"
    THEN [host |-> [h EXCEPT !.svc.override = TRUE], err |-> Nil]
    ELSE IF provider = "launchd"
    THEN IF h.svc.conf THEN [host |-> [h EXCEPT !.svc.running = FALSE], err |-> Nil]
         ELSE [host |-> h, err |-> "could not find plist for service"]
    ELSE [host |-> h, err |-> "unsupported service provider"]

\* The enabled part of ServiceProvider.Apply; r is what the state part left, status the
\* status so far, current the state read at entry.
ServiceApplyEnabled(r, status, attributes, provider, current) ==
    IF r.err # Nil THEN ResourceState(r.host, "failed", r.err)
    ELSE IF Get(attributes, "enabled", FALSE) = current.Enabled
    THEN ResourceState(r.host, status, Nil)
    ELSE IF Get(attributes, "enabled", FALSE)
    THEN IF enableService(r.host, provider).err # Nil
         THEN ResourceState(r.host, "failed", enableService(r.host, provider).err)
         ELSE ResourceState(enableService(r.host, provider).host, "updated", Nil)
    ELSE IF disableService(r.host, provider).err # Nil
         THEN ResourceState(r.host, "failed", disableService(r.host, provider).err)
         ELSE ResourceState(disableService(r.host, provider).host, "updated", Nil)

ServiceApplyState(h, attributes, provider, current) ==
    IF Get(attributes, "state", "") = "running" /\ ~current.Running
    THEN ServiceApplyEnabled(startService(h, provider), "updated", attributes, provider, current)
    ELSE IF Get(attributes, "state", "") = "stopped" /\ current.Running
    THEN ServiceApplyEnabled(stopService(h, provider), "updated", attributes, provider, current)
    ELSE IF Get(attributes, "state", "") \in {"restarted", "reloaded"}
    THEN ServiceApplyEnabled(restartService(h, provider, attributes["state"] = "reloaded"),
                             "updated", attributes, provider, current)
    ELSE ServiceApplyEnabled([host |-> h, err |-> Nil], "unchanged", attributes, provider,
                             current)

ServiceApply(h, attributes, os) ==
    ServiceApplyState(h, attributes, getServiceProvider(h, attributes, os),
                      getServiceState(h, getServiceProvider(h, attributes, os)))

\* ServiceProvider.Plan's comparison of the desired state with the running state
stateNeedsChange(attributes, current) ==
    \/ Get(attributes, "state", "") = "running" /\ ~current.Running
    \/ Get(attributes, "state", "") = "stopped" /\ current.Running
    \/ Get(attributes, "state", "") \in {"restarted", "reloaded"}

\* ServiceProvider.Plan: the Status of the ResourceState it returns and its error; an
\* enabled attribute that is not set is taken as false
ServicePlan(h, attributes, os) ==
    [Status |-> IF \/ stateNeedsChange(attributes,
                                       getServiceState(h, getServiceProvider(h, attributes, os)))
                   \/ Get(attributes, "enabled", FALSE)
                        # getServiceState(h, getServiceProvider(h, attributes, os)).Enabled
                THEN "planned" ELSE "unchanged",
     Error |-> Nil]

\* isDismAvailable or isPowerShellAvailable.
FeatureToolAvailable(h) == "dism" \in h.commands \/ "powershell" \in h.commands

WindowsFeatureValidate(h, attributes, os) ==
    IF os # "windows" THEN "windows_feature provider is only valid on Windows"
    ELSE IF ~Has(attributes, "name") THEN "windows_feature resource requires 'name' attribute"
    ELSE IF Has(attributes, "state") /\ attributes["state"] \notin {"installed", "removed"}
         THEN "windows_feature 'state' must be one of: installed, removed"
    ELSE IF ~FeatureToolAvailable(h)
         THEN "neither DISM nor PowerShell (with Server Manager module) are available"
    ELSE Nil

WindowsFeatureApply(h, attributes, os) ==
    IF os # "windows"
    THEN ResourceState(h, "", "windows_feature provider is only valid on Windows")
    ELSE IF ~FeatureToolAvailable(h)
    THEN ResourceState(h, "failed", "error checking feature with PowerShell")
    ELSE IF Get(attributes, "state", "installed") = "installed" /\ ~h.feature
    THEN ResourceState([h EXCEPT !.feature = TRUE], "created", Nil)
    ELSE IF Get(attributes, "state", "installed") = "removed" /\ h.feature
    THEN ResourceState([h EXCEPT !.feature = FALSE], "deleted", Nil)
    ELSE ResourceState(h, "unchanged", Nil)

(***************************************************************************)
(* The resources handed to the providers and the systems they meet.        *)
(***************************************************************************)
MaxApplies == 2    \* times Apply is called on one resource

Optional(key, values) == {EmptyMap} \cup {key :> v : v \in values}

ProviderResources ==
    {[Type |-> "file", Attributes |-> path @@ state @@ content @@ src @@ perm @@ owner @@ group] :
        path \in Optional("path", {"p"}),
        state \in Optional("state", {"present", "absent", "directory", "link"}),
        content \in Optional("content", {"hello"}),
        src \in Optional("source", {"s"}),
        perm \in Optional("mode", {"600", "4755", "rw"}),
        owner \in Optional("owner", {"web", "ghost"}),
        group \in Optional("group", {"web"})}
    \cup
    {[Type |-> "package", Attributes |-> name @@ state] :
        name \in Optional("name", {"nginx"}),
        state \in Optional("state", {"installed", "removed", "latest", "held"})}
    \cup
    {[Type |-> "service", Attributes |-> name @@ state @@ enabled @@ provider] :
        name \in Optional("name", {"nginx"}),
        state \in Optional("state", {"running", "stopped", "restarted", "reloaded", "paused"}),
        enabled \in Optional("enabled", BOOLEAN),
        provider \in Optional("provider", {"auto", "upstart", "runit"})}
    \cup
    {[Type |-> "windows_feature", Attributes |-> name @@ state] :
        name \in Optional("name", {"IIS"}),
        state \in Optional("state", {"installed", "removed", "disabled"})}

\* The systems a resource of the type may meet; what the type does not touch is left out
\* of the variation.
Hosts(type) ==
    LET DefaultHost ==
            [commands |-> {}, init |-> "unknown", file |-> AbsentFile, src |-> AbsentFile,
             pkg |-> [installed |-> FALSE, available |-> TRUE],
             svc |-> [running |-> FALSE, enabled |-> FALSE, conf |-> FALSE, override |-> FALSE],
             feature |-> FALSE]
        FilesOnDisk ==
            {AbsentFile,
             [kind |-> "file", content |-> "hello", perm |-> 420, owner |-> "root",
              group |-> "root"],
             [kind |-> "file", content |-> "old", perm |-> 384, owner |-> "web", group |-> "web"],
             [kind |-> "dir", content |-> "", perm |-> 493, owner |-> "root", group |-> "root"]}
    IN  IF type = "file"
        THEN {[DefaultHost EXCEPT !.file = f, !.src = s] :
                 f \in FilesOnDisk, s \in {g \in FilesOnDisk : g.kind # "dir"}}
        ELSE IF type = "package"
        THEN {[DefaultHost EXCEPT !.commands = c, !.pkg = [installed |-> i, available |-> a]] :
                 c \in {{}, {"apt-get"}, {"yum"}, {"brew"}, {"winget"}},
                 i \in BOOLEAN, a \in BOOLEAN}
        ELSE IF type = "service"
        THEN {[DefaultHost EXCEPT !.init = s, !.svc.running = r, !.svc.enabled = e,
                                  !.svc.conf = c] :
                 s \in {"systemd", "upstart", "sysvinit", "unknown"},
                 r \in BOOLEAN, e \in BOOLEAN, c \in BOOLEAN}
        ELSE {[DefaultHost EXCEPT !.commands = c, !.feature = i] :
                 c \in {{}, {"dism"}, {"powershell"}}, i \in BOOLEAN}

ProviderInit ==
    /\ desired \in ProviderResources
    /\ host \in Hosts(desired.Type)
    /\ goos \in {"linux", "darwin", "windows"}
    /\ valid = ""
    /\ applies = <<>>
    /\ EngineIdle
    /\ ParserIdle
    /\ IncludeIdle

\* The engine validates a resource before it hands it to Apply.
ProviderValidate ==
    /\ valid = ""
    /\ valid' = IF desired.Type = "file" THEN FileValidate(desired.Attributes)
                 ELSE IF desired.Type = "package"
                 THEN PackageValidate(host, desired.Attributes, goos)
                 ELSE IF desired.Type = "service" THEN ServiceValidate(desired.Attributes)
                 ELSE WindowsFeatureValidate(host, desired.Attributes, goos)
    /\ UNCHANGED <<host, desired, applies>>
    /\ UNCHANGED otherThanProvider

\* Engine.Apply after state, err := provider.Apply(ctx, planned): an error replaces the
\* provider's state by one with status failed and the error; the entry of the map is
\* that state.
Applied(r) ==
    /\ host' = r.host
    /\ applies' = Append(applies, IF r.Error # Nil
                                   THEN [Status |-> "failed", Error |-> r.Error]
                                   ELSE [Status |-> r.Status, Error |-> Nil])

FileProviderApply ==
    /\ valid = Nil
    /\ desired.Type = "file"
    /\ Len(applies) < MaxApplies
    /\ \E r \in {FileApply(host, desired.Attributes, goos)} :
          Applied(r)
    /\ UNCHANGED <<desired, valid>>
    /\ UNCHANGED otherThanProvider

PackageProviderApply ==
    /\ valid = Nil
    /\ desired.Type = "package"
    /\ Len(applies) < MaxApplies
    /\ \E r \in {PackageApply(host, desired.Attributes, goos)} :
          Applied(r)
    /\ UNCHANGED <<desired, valid>>
    /\ UNCHANGED otherThanProvider

ServiceProviderApply ==
    /\ valid = Nil
    /\ desired.Type = "service"
    /\ Len(applies) < MaxApplies
    /\ \E r \in {ServiceApply(host, desired.Attributes, goos)} :
          Applied(r)
    /\ UNCHANGED <<desired, valid>>
    /\ UNCHANGED otherThanProvider

WindowsFeatureProviderApply ==
    /\ valid = Nil
    /\ desired.Type = "windows_feature"
    /\ Len(applies) < MaxApplies
    /\ \E r \in {WindowsFeatureApply(host, desired.Attributes, goos)} :
          Applied(r)
    /\ UNCHANGED <<desired, valid>>
    /\ UNCHANGED otherThanProvider

ProviderNext ==
    \/ ProviderValidate
    \/ FileProviderApply
    \/ PackageProviderApply
    \/ ServiceProviderApply
    \/ WindowsFeatureProviderApply

SpecProvider == ProviderInit /\ [][ProviderNext]_vars

(***************************************************************************)
(* Properties of the providers.                                            *)
(***************************************************************************)
\* Apply succeeded when it returned no error.
Succeeded(i) == i <= Len(applies) /\ applies[i].Error = Nil

NonIdempotentByDesign ==
    /\ desired.Type = "service"
    /\ Get(desired.Attributes, "state", "") \in {"restarted", "reloaded"}

\* C4: for every provider and every resource that passes its Validate, when Apply
\* succeeds and is called again on the resulting system, the second call returns
\* status unchanged, except for a service whose state is restarted or reloaded.
C4_SecondApplyUnchanged ==
    (Len(applies) = 2 /\ Succeeded(1) /\ ~NonIdempotentByDesign)
        => applies[2].Status = "unchanged"

\* ServiceProvider.Validate on the enabled attribute of a parsed resource: the value has
\* to be a Go bool.  The parser's values carry their Go type in T.
ServiceValidateEnabled(attributes) ==
    IF "enabled" \in DOMAIN attributes /\ attributes["enabled"].T # "bool"
    THEN "service 'enabled' must be a boolean"
    ELSE Nil

\* C11: the README's service block, with the attribute enabled = true, parses without
\* error into one service resource whose enabled attribute is a boolean that
\* ServiceProvider.Validate accepts.
C11_ReadmeServiceParses ==
    (ppc = "done" /\ source = <<"readme_service">>) =>
        /\ parseErr = 0
        /\ Len(Resources) = 1
        /\ Resources[1].Type = "service"
        /\ "enabled" \in DOMAIN Resources[1].Attributes
        /\ ServiceValidateEnabled(Resources[1].Attributes) = Nil

(***************************************************************************)
(* Include graphs: three config files, each including any set of the       *)
(* three (itself too) with one include_platform statement per target, and  *)
(* holding one file resource of its own.                                   *)
(***************************************************************************)
IncludeOf(target) ==
    <<K.include_platform, K.LBRACE, IDENT("linux"), K.ASSIGN, Str(PathOf[target]), K.RBRACE>>

GraphFile(f, targets) ==
    (IF "lib" \in targets THEN IncludeOf("lib") ELSE <<>>)
    \o (IF "main" \in targets THEN IncludeOf("main") ELSE <<>>)
    \o <<IDENT("file"), Str(PathOf[f]), K.LBRACE, K.RBRACE>>
    \o (IF "sub" \in targets THEN IncludeOf("sub") ELSE <<>>)

IncludeGraphInit ==
    /\ \E edges \in [DOMAIN PathOf -> SUBSET DOMAIN PathOf] :
          files = [f \in DOMAIN PathOf |-> GraphFile(f, edges[f])]
    /\ goos = "linux"
    /\ ProcessedFiles = {}
    /\ Variables = EmptyMap
    /\ Templates = EmptyMap
    /\ stack = <<>>
    /\ reads = <<>>
    /\ included = <<>>
    /\ given = <<>>
    /\ result = <<>>
    /\ ierr = Nil
    /\ ipc = "new"
    /\ EngineIdle
    /\ ParserIdle
    /\ ProviderIdle

IncludeGraphNext ==
    \/ ProcessIncludes
    \/ IncludeStatement
    \/ IncludeFile
    \/ RegularResource
    \/ ReturnResources

SpecIncludeGraph == IncludeGraphInit /\ [][IncludeGraphNext]_vars

\* The work the active calls have left: five for each resource a call has still to look
\* at, one for each match it has still to include, one for its return.
RECURSIVE WorkLeft(_)
WorkLeft(stk) ==
    IF stk = <<>> THEN 0
    ELSE 5 * (Len(Head(stk).fileResources) + 1 - Head(stk).i) + Len(Head(stk).matches) + 1
         + WorkLeft(Tail(stk))

\* A measure of what ProcessIncludes has left to do: the files not yet processed weigh
\* more than the work any one file brings.
Measure == 32 * Cardinality(DOMAIN files \ ProcessedFiles) + WorkLeft(stack)

\* C12: whatever the include statements of the files form (chains, a file reached on two
\* paths, a file that includes itself, files that include each other), ProcessIncludes
\* terminates: every step of a running call lowers a measure that is a natural number.
\* No file is read more than once by a handler, and the inclusion of a file that was
\* processed before reads nothing, starts no call, adds no resource and sets no error.
C12_IncludesTerminateEachFileOnce ==
    /\ [](\A i, j \in DOMAIN reads : i # j => reads[i] # reads[j])
    /\ [][(IncludeFile /\ Head(Top.matches) \in ProcessedFiles) =>
            /\ reads' = reads
            /\ ierr' = ierr
            /\ stack' = SetTop([Top EXCEPT !.matches = Tail(@)])]_vars
    /\ [](Measure \in Nat)
    /\ [][ipc = "includes" => Measure' < Measure]_vars

\* Two files that include each other (and themselves) have been processed, each read once.
C12_Witness ==
    /\ ipc = "included"
    /\ ierr = Nil
    /\ files["main"] = GraphFile("main", {"main", "sub"})
    /\ files["sub"] = GraphFile("sub", {"main", "sub", "lib"})
    /\ files["lib"] = GraphFile("lib", {"sub"})
    /\ reads = <<"main", "sub", "lib">>
    /\ Len(included) = 3

(***************************************************************************)
(* ReplaceVariables on its own: a handler with a variable table is asked   *)
(* to expand a string, and then to expand what it returned.  Here given is *)
(* the string, included the first result and result the second.           *)
(***************************************************************************)
MaxString == 3     \* longest string handed to ReplaceVariables

ReplaceInit ==
    /\ given \in SeqsUpTo({"$", "a", "b"}, MaxString)
    /\ \E names \in SUBSET {<<"a">>, <<"a", "b">>, <<"b">>} :
          Variables \in [names -> {<<"1">>, <<"$", "b">>}]
    /\ goos = "linux"
    /\ files = EmptyMap
    /\ ProcessedFiles = {}
    /\ Templates = EmptyMap
    /\ stack = <<>>
    /\ reads = <<>>
    /\ included = <<>>
    /\ result = <<>>
    /\ ierr = Nil
    /\ ipc = "new"
    /\ EngineIdle
    /\ ParserIdle
    /\ ProviderIdle

\* h.ReplaceVariables(content): the range over h.Variables takes some order
Replace ==
    /\ ipc \in {"new", "once"}
    /\ \E order \in MapOrders(Variables) :
          IF ipc = "new"
          THEN /\ included' = ReplaceVariables(given, Variables, order)
               /\ result' = result
               /\ ipc' = "once"
          ELSE /\ result' = ReplaceVariables(included, Variables, order)
               /\ included' = included
               /\ ipc' = "twice"
    /\ UNCHANGED <<files, ProcessedFiles, Variables, Templates, stack, reads, given, ierr>>
    /\ UNCHANGED otherThanInclude

SpecReplace == ReplaceInit /\ [][Replace]_vars

\* The length of the variable name that starts a string: its leading letters.
RECURSIVE NameLen(_)
NameLen(s) == IF s # <<>> /\ Head(s) \in {"a", "b"} THEN 1 + NameLen(Tail(s)) ELSE 0

\* The expansion the contract describes: one pass from left to right in which every
\* reference, a $ and the name that follows it, is replaced by the value of the name if
\* the name is defined and is copied if it is not; the values are copied as they are.
RECURSIVE Expansion(_, _)
Expansion(s, table) ==
    IF s = <<>> THEN <<>>
    ELSE IF Head(s) = "$" /\ SubSeq(s, 2, 1 + NameLen(Tail(s))) \in DOMAIN table
    THEN table[SubSeq(s, 2, 1 + NameLen(Tail(s)))]
         \o Expansion(SubSeq(s, 2 + NameLen(Tail(s)), Len(s)), table)
    ELSE <<Head(s)>> \o Expansion(Tail(s), table)

\* C13: ReplaceVariables replaces each reference to a defined variable with the
\* variable's value and leaves every reference to a name that is not defined as written.
C13_UnknownReferencesKept ==
    (ipc \in {"once", "twice"} /\ \A name \in DOMAIN Variables : "$" \notin Range(Variables[name]))
        => included = Expansion(given, Variables)

\* C14: expansion is one flat pass that does not expand the text a value brings in, and
\* expanding its result again changes nothing.  (Tables in which one name starts
\* another are left to C13.)
C14_ExpansionIsFlatAndIdempotent ==
    (ipc = "twice" /\ <<"a">> \notin DOMAIN Variables) =>
        /\ included = Expansion(given, Variables)
        /\ result = included

(***************************************************************************)
(* What ProcessIncludes hands to main, and main to the engine.             *)
(***************************************************************************)
\* C15: the list ProcessIncludes returns holds no resource of type variable,
\* template, include or include_platform, and every resource in it has a
\* non-empty type and a non-empty name.
C15_ReturnedResourcesWellFormed ==
    (ipc = "included" /\ ierr = Nil) =>
        \A i \in DOMAIN included :
            /\ included[i].Type \notin {"variable", "template", "include", "include_platform"}
            /\ included[i].Type # ""
            /\ included[i].Name # <<>>

\* C16: for a file resource with state present (or no state) and content C, whatever was
\* at the path before (nothing, a regular file, a directory), once FileProvider.Apply has
\* returned without error the path is a regular file whose content is C, and except on
\* Windows its mode, owner and group are the requested ones.
C16_FilePresentAfterApply ==
    (/\ desired.Type = "file"
     /\ Get(desired.Attributes, "state", "present") = "present"
     /\ Has(desired.Attributes, "content")
     /\ applies # <<>>
     /\ applies[Len(applies)].Error = Nil) =>
        /\ host.file.kind = "file"
        /\ host.file.content = desired.Attributes["content"]
        /\ goos # "windows" =>
              /\ Has(desired.Attributes, "mode") =>
                    host.file.perm = ParseInt8[desired.Attributes["mode"]]
              /\ Has(desired.Attributes, "owner") =>
                    host.file.owner = desired.Attributes["owner"]
              /\ Has(desired.Attributes, "group") =>
                    host.file.group = desired.Attributes["group"]

\* C17: when a resource of the list names in depends_on an identifier that no resource
\* of the list has, Plan and Apply return the missing-dependency error and no provider
\* is asked to validate, plan or apply anything, whether or not the host platform
\* supports the dependent resource.
C17_MissingDependencyAbortsRun ==
    MissingPairs(resources) # {} =>
        /\ validated = <<>>
        /\ calls = <<>>
        /\ results = EmptyMap
        /\ pc \in {"build", "done"}
        /\ pc = "done" => err.kind = "missing_dependency"

C17_Witness ==
    /\ pc = "done"
    /\ mode = "apply"
    /\ err.kind = "missing_dependency"
    /\ \E i \in DOMAIN resources :
          /\ ResourceID(resources[i]) = err.id
          /\ err.dep \in Range(resources[i].DependsOn)
          /\ ~isPlatformSupported(resources[i], goos)

\* C18: Engine.Plan turns what the provider's Plan returned for a supported resource
\* into the resource's action: status planned gives create, status unchanged gives
\* no-op, an error gives error with details; the action update is never produced.
C18_PlanActions ==
    /\ [](mode = "plan" => \A id \in DOMAIN results : results[id].Action # "update")
    /\ [][(mode = "plan" /\ calls' # calls) =>
            \E call \in {calls'[Len(calls')]} :
               /\ call[3] = "planned" => results'[call[2]].Action = "create"
               /\ call[3] = "unchanged" => results'[call[2]].Action = "no-op"
               /\ call[3] = "error" => /\ results'[call[2]].Action = "error"
                                        /\ results'[call[2]].Details # ""]_vars

C18_Witness ==
    /\ mode = "plan"
    /\ pc = "done"
    /\ {results[id].Action : id \in DOMAIN results} = {"create", "no-op", "error"}
    /\ {calls[i][3] : i \in DOMAIN calls} = {"planned", "unchanged", "error"}

\* C19: with the file, package, service and windows_feature providers, every entry
\* Engine.Apply puts in its map has a status among created, updated, deleted, unchanged
\* and failed, and has an error exactly when its status is failed.
C19_ApplyEntryStatuses ==
    \A i \in DOMAIN applies :
        /\ applies[i].Status \in {"created", "updated", "deleted", "unchanged", "failed"}
        /\ applies[i].Error # Nil <=> applies[i].Status = "failed"

C19_Witness ==
    /\ desired.Type = "file"
    /\ Len(applies) = 2
    /\ applies[1].Status = "failed"
    /\ applies[1].Error = "failed to lookup owner"
    /\ host.file.kind = "file"

(***************************************************************************)
(* The scanner on identifiers.  The text is a sequence of characters.      *)
(***************************************************************************)
\* strings.ToLower on the letters of the model
ToLower(s) ==
    LET lower == [A |-> "a", B |-> "b", C |-> "c", D |-> "d", E |-> "e", F |-> "f",
                  H |-> "h", I |-> "i", L |-> "l", M |-> "m", N |-> "n", O |-> "o",
                  P |-> "p", R |-> "r", S |-> "s", T |-> "t", U |-> "u", V |-> "v",
                  W |-> "w"]
    IN  [i \in DOMAIN s |-> IF s[i] \in DOMAIN lower THEN lower[s[i]] ELSE s[i]]

\* customScanner.scanToken, the branch for a letter: the token made from the literal
\* that readIdentifier returned
identifierToken(literal) ==
    IF literal = <<"i", "n", "c", "l", "u", "d", "e", "_", "p", "l", "a", "t", "f", "o", "r", "m">>
    THEN Tok("INCLUDE_PLATFORM", literal)
    ELSE IF ToLower(literal) = <<"w", "h", "e", "n">> THEN Tok("WHEN", literal)
    ELSE IF ToLower(literal) = <<"d", "e", "p", "e", "n", "d", "s", "_", "o", "n">>
    THEN Tok("DEPENDS_ON", literal)
    ELSE IF ToLower(literal) = <<"i", "n", "c", "l", "u", "d", "e">> THEN Tok("INCLUDE", literal)
    ELSE IF ToLower(literal) = <<"v", "a", "r", "i", "a", "b", "l", "e">>
    THEN Tok("VARIABLE", literal)
    ELSE IF ToLower(literal) = <<"t", "e", "m", "p", "l", "a", "t", "e">>
    THEN Tok("TEMPLATE", literal)
    ELSE Tok("IDENT", literal)

\* the reserved words and the token kind of each
ReservedWords ==
    {<<(<<"w", "h", "e", "n">>), "WHEN">>,
     <<(<<"d", "e", "p", "e", "n", "d", "s", "_", "o", "n">>), "DEPENDS_ON">>,
     <<(<<"i", "n", "c", "l", "u", "d", "e">>), "INCLUDE">>,
     <<(<<"i", "n", "c", "l", "u", "d", "e", "_", "p", "l", "a", "t", "f", "o", "r", "m">>),
       "INCLUDE_PLATFORM">>,
     <<(<<"v", "a", "r", "i", "a", "b", "l", "e">>), "VARIABLE">>,
     <<(<<"t", "e", "m", "p", "l", "a", "t", "e">>), "TEMPLATE">>}

\* the upper-case form of a character, the character itself when it has none
Capital(c) ==
    LET upper == [a |-> "A", b |-> "B", c |-> "C", d |-> "D", e |-> "E", f |-> "F",
                  h |-> "H", i |-> "I", l |-> "L", m |-> "M", n |-> "N", o |-> "O",
                  p |-> "P", r |-> "R", s |-> "S", t |-> "T", u |-> "U", v |-> "V",
                  w |-> "W"]
    IN  IF c \in DOMAIN upper THEN upper[c] ELSE c

MaxUpper == 3   \* most letters written in upper case, short of all of them

\* spellings of the reserved words, of file and of two words that start as a reserved
\* word does: up to MaxUpper letters in upper case, or all of them
Identifiers ==
    UNION {{[i \in DOMAIN word |-> IF i \in upper THEN Capital(word[i]) ELSE word[i]] :
               upper \in {u \in SUBSET DOMAIN word :
                             Cardinality(u) <= MaxUpper \/ u = DOMAIN word}} :
           word \in {w[1] : w \in ReservedWords}
                    \cup {<<"f", "i", "l", "e">>, <<"w", "h", "e", "n", "s">>,
                          <<"i", "n", "c", "l", "u", "d", "e", "_">>}}

ScanInit ==
    /\ source \in Identifiers
    /\ goos = "linux"
    /\ tokens = <<>>
    /\ pos = 0
    /\ Resources = <<>>
    /\ errors = <<>>
    /\ ppc = "scan"
    /\ parseErr = 0
    /\ cs = NoScanner
    /\ EngineIdle
    /\ IncludeIdle
    /\ ProviderIdle

\* Lexer.advance: the scanner's next token is appended to the tokens read
ScanToken ==
    /\ ppc = "scan"
    /\ tokens' = Append(tokens, identifierToken(source))
    /\ ppc' = "scanned"
    /\ UNCHANGED <<source, pos, Resources, errors, parseErr, cs>>
    /\ UNCHANGED otherThanParser

SpecScan == ScanInit /\ [][ScanToken]_vars

\* C20: an identifier whose lower-cased text is one of the six reserved words is given
\* the token kind of that word whatever its letter case, and its literal is the text as
\* written.
C20_KeywordsInAnyCase ==
    ppc = "scanned" =>
        /\ tokens[1].Literal = source
        /\ \A w \in ReservedWords : ToLower(source) = w[1] => tokens[1].Type = w[2]

(***************************************************************************)
(* The order of the engine's provider calls.                               *)
(***************************************************************************)
\* C21: on an acyclic list, for supported resources u and v where v depends on u,
\* directly or transitively, the provider's Validate for u is called before the
\* provider's Validate for v.
C21_DependenciesValidatedFirst ==
    ~HasCycle(resources) =>
        \A i, j \in DOMAIN validated :
            validated[i] \in DependsOnTrans(resources, validated[j]) => i < j

\* the identifiers of a list in the order of their first resource
RECURSIVE IdsInListOrder(_, _)
IdsInListOrder(rs, i) ==
    IF i > Len(rs) THEN <<>>
    ELSE (IF \E j \in 1..(i - 1) : ResourceID(rs[j]) = ResourceID(rs[i])
          THEN <<>> ELSE <<ResourceID(rs[i])>>) \o IdsInListOrder(rs, i + 1)

\* C22: the processing order is a function of the resource list: every run on a list
\* sorts its nodes into the same sequence, the one the run that visits the nodes in
\* list order produces.
C22_OrderDeterminedByInput ==
    [][(pc = "sort" /\ pc' = "loop") =>
          orderedNodes' = topoSort(graph, IdsInListOrder(resources, 1)).result]_vars

Contains(s, sub) == \E i \in 1..(Len(s) - Len(sub) + 1) : SubSeq(s, i, i + Len(sub) - 1) = sub

\* every $ of the string starts a reference to a variable of the table
OnlyDefinedReferences(s, table) ==
    \A i \in DOMAIN s :
        s[i] = "$" => SubSeq(s, i + 1, i + NameLen(SubSeq(s, i + 1, Len(s)))) \in DOMAIN table

\* C24: when every $ reference of a string names a variable of the table, the string
\* ReplaceVariables returns holds the text $K for no variable K of the table.
C24_NoReferenceLeft ==
    (ipc \in {"once", "twice"} /\ OnlyDefinedReferences(given, Variables)) =>
        \A name \in DOMAIN Variables : ~Contains(included, <<"$">> \o name)

\* C24 amended: when no value of the table holds a $ and every $ reference of a string
\* names a variable of the table, the string ReplaceVariables returns holds the text
\* $K for no variable K of the table.
C24_NoReferenceLeftForPlainValues ==
    (/\ ipc \in {"once", "twice"}
     /\ OnlyDefinedReferences(given, Variables)
     /\ \A name \in DOMAIN Variables : "$" \notin Range(Variables[name])) =>
        \A name \in DOMAIN Variables : ~Contains(included, <<"$">> \o name)

C24_Witness ==
    /\ ipc = "once"
    /\ given = <<"$", "a", "b">>
    /\ Variables = (<<"a">> :> <<"1">>) @@ (<<"a", "b">> :> <<"1">>)
    /\ included = <<"1", "b">>

\* C25: when the first file or a file included from it, directly or through other
\* files, cannot be read or does not parse, ProcessIncludes returns an error and no
\* resources, and reads no file after that one; an include whose pattern matches no
\* file raises no error and adds no resource.
C25_IncludeErrorsFatal ==
    /\ [](\A k \in DOMAIN reads :
             (reads[k] \notin DOMAIN files \/ Parse(files[reads[k]]).errors # <<>>) =>
                 /\ ierr # Nil
                 /\ ipc = "done"
                 /\ included = <<>>
                 /\ stack = <<>>
                 /\ k = Len(reads))
    /\ [][(/\ AtResource
           /\ TopResource.Type \in {"include", "include_platform"}
           /\ Glob(files, IncludePattern(TopResource, goos)) = <<>>) =>
              /\ ierr' = Nil
              /\ reads' = reads
              /\ ipc' = ipc
              /\ stack' = SetTop([Top EXCEPT !.i = @ + 1])]_vars

C25_Witness ==
    /\ ipc = "done"
    /\ ierr = "error parsing config file"
    /\ files["main"] = LexConfig(<<"inc_none", "file_t", "inc_platform">>)
    /\ reads = <<"main", "sub">>
    /\ included = <<>>

\* the resources of the list with the identifier that the host platform supports
SupportedWithId(id) ==
    {i \in DOMAIN resources : ResourceID(resources[i]) = id
                              /\ isPlatformSupported(resources[i], goos)}

\* C26: in a run of Engine.Apply in which no provider call fails, every resource of the
\* list that the host platform supports is planned once and applied once, also when
\* other resources of the list have its type and name.
C26_EverySupportedResourceApplied ==
    (mode = "apply" /\ pc = "done" /\ err = NoErr /\ failures = 0) =>
        \A id \in GraphIds(resources) :
            /\ CallCount("plan", id) = Cardinality(SupportedWithId(id))
            /\ CallCount("apply", id) = Cardinality(SupportedWithId(id))

(***************************************************************************)
(* The customScanner byte by byte: the reader, the read buffer and the     *)
(* slices the tokens' literals are taken from.                             *)
(***************************************************************************)
BufferSize == 2   \* bytes asked of the reader at a time (1024 in the source)
MaxInput == 4     \* longest input

\* isLetter and isDigit
Letters ==
    {"a", "b", "c", "d", "e", "f", "g", "h", "i", "j", "k", "l", "m", "n", "o", "p", "q",
     "r", "s", "t", "u", "v", "w", "x", "y", "z", "A", "B", "C", "D", "E", "F", "G", "H",
     "I", "J", "K", "L", "M", "N", "O", "P", "Q", "R", "S", "T", "U", "V", "W", "X", "Y",
     "Z"}
Digits == {"0", "1", "2", "3", "4", "5", "6", "7", "8", "9"}
Whitespace == {" ", "\t", "\n", "\r"}

\* the bytes the inputs are made of
InputBytes == {"a", "1", "\"", "/", "\n", "{"}

\* strings.Reader.Read into a buffer of BufferSize bytes: the number of bytes read
Read(reader) == IF Len(reader) < BufferSize THEN Len(reader) ELSE BufferSize

\* customScanner.readChar; position and readPos count from 0 as in the source
readChar(c) ==
    IF c.readPos >= Len(c.buffer)
    THEN IF c.reader = <<>>
         THEN [c EXCEPT !.ch = "NUL"]
         ELSE [reader |-> SubSeq(c.reader, Read(c.reader) + 1, Len(c.reader)),
               buffer |-> SubSeq(c.reader, 1, Read(c.reader)),
               position |-> 0, readPos |-> 1, ch |-> c.reader[1]]
    ELSE [c EXCEPT !.ch = c.buffer[c.readPos + 1], !.position = c.readPos,
                   !.readPos = c.readPos + 1]

peekChar(c) == IF c.readPos >= Len(c.buffer) THEN "NUL" ELSE c.buffer[c.readPos + 1]

\* the loops "for <ch is of the class> { cs.readChar() }"
RECURSIVE readWhile(_, _)
readWhile(c, class) == IF c.ch \in class THEN readWhile(readChar(c), class) ELSE c

\* the loops "for cs.ch != <stop> && cs.ch != 0 { cs.readChar() }"
RECURSIVE readUntil(_, _)
readUntil(c, stop) == IF c.ch # stop /\ c.ch # "NUL" THEN readUntil(readChar(c), stop) ELSE c

skipWhitespace(c) == readWhile(c, Whitespace)

\* customScanner.skipComments: whether a comment starts here, and the scanner after it
startsComment(c) == (c.ch = "/" /\ peekChar(c) = "/") \/ c.ch = "#"
skipComments(c) ==
    LET e == readUntil(c, "\n")
    IN  IF e.ch = "\n" THEN readChar(e) ELSE e

\* scanToken's "cs.skipWhitespace(); for cs.skipComments() { cs.skipWhitespace() }"
RECURSIVE skipBlanks(_)
skipBlanks(c) ==
    LET w == skipWhitespace(c)
    IN  IF startsComment(w) THEN skipBlanks(skipComments(w)) ELSE w

\* string(cs.buffer[startPosition:cs.position]), startPosition taken from the scanner
\* c before the loop and the buffer and position from the scanner e after it; the
\* slice expression panics when startPosition is greater than cs.position
Slice(c, e) ==
    [cs |-> e,
     panic |-> c.position > e.position,
     literal |-> IF c.position > e.position THEN <<>>
                 ELSE SubSeq(e.buffer, c.position + 1, e.position)]

readIdentifier(c) == Slice(c, readWhile(c, Letters \cup Digits \cup {"_"}))

readNumber(c) == Slice(c, readWhile(c, Digits \cup {"."}))

readString(c) ==
    LET e == readUntil(readChar(c), "\"")
        r == Slice(readChar(c), e)
    IN  [r EXCEPT !.cs = IF e.ch = "\"" THEN readChar(e) ELSE e]

\* the tokens of one character
Punctuation ==
    [ch \in {"{", "}", "(", ")", "[", "]", "=", ","} |->
        CASE ch = "{" -> "LBRACE" [] ch = "}" -> "RBRACE"
          [] ch = "(" -> "LPAREN" [] ch = ")" -> "RPAREN"
          [] ch = "[" -> "LBRACKET" [] ch = "]" -> "RBRACKET"
          [] ch = "=" -> "ASSIGN" [] ch = "," -> "COMMA"]

\* customScanner.scanToken: the scanner after the call, the token, and whether the
\* call panicked
scanToken(c) ==
    LET b == skipBlanks(c)
    IN  IF b.ch = "NUL" THEN [cs |-> b, panic |-> FALSE, tok |-> Tok("EOF", <<>>)]
        ELSE IF b.ch \in DOMAIN Punctuation
        THEN [cs |-> readChar(b), panic |-> FALSE, tok |-> Tok(Punctuation[b.ch], <<b.ch>>)]
        ELSE IF b.ch = "\""
        THEN [cs |-> readString(b).cs, panic |-> readString(b).panic,
              tok |-> Tok("STRING", readString(b).literal)]
        ELSE IF b.ch \in Letters
        THEN [cs |-> readIdentifier(b).cs, panic |-> readIdentifier(b).panic,
              tok |-> identifierToken(readIdentifier(b).literal)]
        ELSE IF b.ch \in Digits
        THEN [cs |-> readNumber(b).cs, panic |-> readNumber(b).panic,
              tok |-> Tok("NUMBER", readNumber(b).literal)]
        ELSE [cs |-> readChar(b), panic |-> FALSE, tok |-> Tok("ILLEGAL", <<b.ch>>)]

\* newCustomScanner on a strings.Reader of the input: the first character is read
LexerInit ==
    /\ source \in SeqsUpTo(InputBytes, MaxInput)
    /\ cs = readChar([NoScanner EXCEPT !.reader = source])
    /\ goos = "linux"
    /\ tokens = <<>>
    /\ pos = 0
    /\ Resources = <<>>
    /\ errors = <<>>
    /\ ppc = "scan"
    /\ parseErr = 0
    /\ EngineIdle
    /\ IncludeIdle
    /\ ProviderIdle

\* Lexer.scanToken, called until the scanner returns EOF; a panic ends the program
LexerScanToken ==
    /\ ppc = "scan"
    /\ cs' = scanToken(cs).cs
    /\ IF scanToken(cs).panic
       THEN /\ ppc' = "panic"
            /\ tokens' = tokens
       ELSE /\ ppc' = IF scanToken(cs).tok.Type = "EOF" THEN "scanned" ELSE "scan"
            /\ tokens' = Append(tokens, scanToken(cs).tok)
    /\ UNCHANGED <<source, pos, Resources, errors, parseErr>>
    /\ UNCHANGED otherThanParser

SpecLexer == LexerInit /\ [][LexerScanToken]_vars

\* the last index of the run of bytes of the class that starts at index i of s,
\* i - 1 when s[i] is not of the class
RunEnd(s, i, class) ==
    CHOOSE j \in (i - 1)..Len(s) :
        /\ \A k \in i..j : s[k] \in class
        /\ j = Len(s) \/ s[j + 1] \notin class

\* the tokens of the text s from index i on, read off the text itself
RECURSIVE TokensOfText(_, _)
TokensOfText(s, i) ==
    IF i > Len(s) THEN <<Tok("EOF", <<>>)>>
    ELSE IF s[i] \in Whitespace THEN TokensOfText(s, i + 1)
    ELSE IF s[i] = "#" \/ (s[i] = "/" /\ i < Len(s) /\ s[i + 1] = "/")
    THEN TokensOfText(s, RunEnd(s, i, InputBytes \ {"\n"}) + 2)
    ELSE IF s[i] \in DOMAIN Punctuation
    THEN <<Tok(Punctuation[s[i]], <<s[i]>>)>> \o TokensOfText(s, i + 1)
    ELSE IF s[i] = "\""
    THEN <<Tok("STRING", SubSeq(s, i + 1, RunEnd(s, i + 1, InputBytes \ {"\""})))>>
         \o TokensOfText(s, RunEnd(s, i + 1, InputBytes \ {"\""}) + 2)
    ELSE IF s[i] \in Letters
    THEN <<identifierToken(SubSeq(s, i, RunEnd(s, i, Letters \cup Digits \cup {"_"})))>>
         \o TokensOfText(s, RunEnd(s, i, Letters \cup Digits \cup {"_"}) + 1)
    ELSE IF s[i] \in Digits
    THEN <<Tok("NUMBER", SubSeq(s, i, RunEnd(s, i, Digits \cup {"."})))>>
         \o TokensOfText(s, RunEnd(s, i, Digits \cup {"."}) + 1)
    ELSE <<Tok("ILLEGAL", <<s[i]>>)>> \o TokensOfText(s, i + 1)

\* C27: scanning does not fault, and the tokens the scanner produces are the tokens of
\* the input text, each literal the source text of its token, however the text falls
\* into the reads of the buffer and also when an identifier or number ends the input.
C27_TokensDependOnlyOnInput ==
    /\ ppc # "panic"
    /\ ppc = "scanned" => tokens = TokensOfText(source, 1)

\* C28: for every file resource and every state of the filesystem, FileProvider.Plan
\* returns the status unchanged exactly when FileProvider.Apply on that state returns
\* the status unchanged, and an Apply that returns unchanged leaves the file's
\* existence, type, content, mode, owner and group as they were.
C28_PlanAndApplyAgree ==
    [][(desired.Type = "file" /\ Len(applies') = Len(applies) + 1) =>
          /\ (FilePlan(host, desired.Attributes, goos).Status = "unchanged")
                <=> (applies'[Len(applies')].Status = "unchanged")
          /\ applies'[Len(applies')].Status = "unchanged" => host'.file = host.file]_vars

\* C29: for a service resource that does not set the enabled attribute, Apply leaves
\* the service's boot-enablement as it was (it neither enables nor disables the
\* service), and Plan reports planned only when the running state needs a change,
\* whatever the service's current enabled state.
C29_UnsetEnabledLeftAlone ==
    [][(/\ desired.Type = "service"
        /\ ~Has(desired.Attributes, "enabled")
        /\ Len(applies') = Len(applies) + 1) =>
          /\ host'.svc.enabled = host.svc.enabled
          /\ host'.svc.override = host.svc.override
          /\ ServicePlan(host, desired.Attributes, goos).Status = "planned" =>
                stateNeedsChange(desired.Attributes,
                                 getServiceState(host, getServiceProvider(host, desired.Attributes,
                                                                         goos)))]_vars

\* the bytes the scanner has not passed yet, the one under cs.ch included
Unread(c) == IF c.ch = "NUL" THEN 0 ELSE Len(c.reader) + Len(c.buffer) - c.position

\* The loops of Parse on the tokens the lexer hands it: every iteration of the top-level
\* loop, with the block and list loops and the error recovery it runs, starts at a token
\* of the input and leaves the lexer at least one token further, and at EOF the loop
\* takes no further iteration and Parse returns its resources and its error value.
ParseLoopConsumes ==
    /\ [][(ppc = "parse" /\ ppc' = "parse") => (pos <= Len(tokens) /\ pos' > pos)]_vars
    /\ [][(ppc = "parse" /\ Current(tokens, pos).Type = "EOF") =>
             /\ ppc' = "done"
             /\ Resources' = Resources
             /\ parseErr' = Len(errors)]_vars

\* C30: Parser.Parse terminates on every input and returns its resources and its error
\* value: every call of the scanner that Lexer.advance makes for Parse returns a token,
\* and a token other than EOF takes at least one byte of the input, so the EOF token is
\* reached.
C30_ParseTerminates ==
    [][ppc = "scan" =>
          /\ ppc' \in {"scan", "scanned"}
          /\ ppc' = "scan" => Unread(cs') < Unread(cs)]_vars

====
